---- MODULE Spec2Model ----
(***************************************************************************)
(* Model of the CV pipeline of brindlev10: process_cv_pipeline and the     *)
(* retry helpers it drives (draft_app.py, cv_parser.py, claude_utils.py),  *)
(* and LocationService.enrich_experience_locations (location_service.py).  *)
(***************************************************************************)
EXTENDS Integers, Sequences, FiniteSets, TLC

\* ------------------------------------------------------------------------
\* Program constants
\* ------------------------------------------------------------------------
upload_max_retries == 3
base_wait == 5
parser_max_retries == 5
parser_initial_delay == 1
claude_max_retries == 5
claude_initial_delay == 1
blurb_max_retries == 5
blurb_initial_delay == 1

\* ------------------------------------------------------------------------
\* Universe of the pipeline model
\* ------------------------------------------------------------------------
\* the requests (uploads) in flight
Runs == {"r1", "r2"}
\* secure_filename(file.filename) without extension, as chosen by the users;
\* a user may name a CV like the template of stage 6, Current_template.docx
Names == {"cv_a", "Current_template"}
NoRun == "none"

StageOrder == <<"store", "parse", "blurb", "location", "persist", "document">>
StageNames == {StageOrder[i] : i \in 1..Len(StageOrder)}

\* ---- paths of the files the pipeline writes ---------------------------
\* uploads/<filename>                      (upload_file_route)
UploadPath(n) == <<"uploads", n, 0>>
\* parsed_jsons/parsed_<stem of the signed URL>.json   (save_parsed_data).
\* The signed URL of blob <n>.docx is taken to be one text per blob name,
\* which is what storage returns for URLs signed within the same second.
ParsedPath(n) == <<"parsed", n, 0>>
\* parsed path with ".json" replaced by "_enriched.json" (generate_blurb_with_claude)
BlurbPath(n) == <<"parsed_enriched", n, 0>>
\* parsed_jsons/<base_name>_enriched.json  (stage 5)
EnrichedPath(n) == <<"enriched", n, 0>>
\* parsed_jsons/<template stem>_enriched.json (prepare_context): one path,
\* which is the stage 5 path of an upload named like the template
ContextPath == EnrichedPath("Current_template")
\* outputs/<base_name>_CV.docx
OutputPath(n) == <<"output", n, 0>>

Paths == {UploadPath(n) : n \in Names}
         \cup {ParsedPath(n) : n \in Names}
         \cup {BlurbPath(n) : n \in Names}
         \cup {EnrichedPath(n) : n \in Names}
         \cup {ContextPath}
         \cup {OutputPath(n) : n \in Names}

\* the intermediate files of a run (everything but the rendered document)
IntermediatePaths == Paths \ {OutputPath(n) : n \in Names}

\* ---- outcomes returned by process_cv_pipeline --------------------------
\* A key that a dict does not have is "absent" (success) or "" (status, message).
NoOutcome == [returned |-> FALSE, success |-> "absent", status |-> "",
              message |-> "", retry_as_pdf |-> FALSE]

StorageOutcome == [returned |-> TRUE, success |-> "false", status |-> "error",
                   message |-> "storage_unavailable", retry_as_pdf |-> FALSE]

PdfOutcome == [returned |-> TRUE, success |-> "false", status |-> "warning",
               message |-> "resave_as_pdf", retry_as_pdf |-> TRUE]

AiOutcome == [returned |-> TRUE, success |-> "false", status |-> "error",
              message |-> "ai_problems", retry_as_pdf |-> FALSE]

\* the except clause of process_cv_pipeline: "Error processing CV: <str(e)>"
ErrorOutcome(e) == [returned |-> TRUE, success |-> "false", status |-> "error",
                    message |-> e, retry_as_pdf |-> FALSE]

SuccessOutcome == [returned |-> TRUE, success |-> "true", status |-> "",
                   message |-> "processed", retry_as_pdf |-> FALSE]

VARIABLES
    pc,         \* run -> position in upload_file_route / process_cv_pipeline
    fname,      \* run -> base name of the uploaded file
    stage,      \* run -> stage -> pending | in_progress | succeeded | failed
    helper,     \* run -> retry helper whose counters are current
    attempt,    \* run -> loop variable `attempt` of the current helper call
    calls,      \* run -> requests sent by the current helper call
    sleeps,     \* run -> time.sleep arguments of the current helper call
    lastResp,   \* run -> last answer the current helper call got
    raised,     \* run -> what the last make_claude_api_call raised
    outer,      \* run -> loop variable `attempt` of generate_blurb_with_claude
    delay,      \* run -> variable `delay` of generate_blurb_with_claude
    temp,       \* run -> content of the temporary copy of the upload
    mem,        \* run -> content of the record the run holds in memory
    docFrom,    \* run -> content the document of the run was rendered from
    outcome,    \* run -> dict returned by process_cv_pipeline
    files,      \* path -> content (the run whose upload it derives from)
    blobs,      \* name -> content of the remote blob <name>.docx
    writers,    \* path -> runs that have written the path
    totalYearsIn \* paths whose JSON has basics.total_experience_in_years
                \* as prepare_context computed it

pipeVars == <<pc, fname, stage, helper, attempt, calls, sleeps, lastResp,
              raised, outer, delay, temp, mem, docFrom,
              outcome, files, blobs, writers, totalYearsIn>>

\* state of one call of LocationService.enrich_experience_locations
VARIABLES
    locPc,      \* idle | loop | returned
    locInput,   \* the record as it was when it was passed in
    locRec,     \* the record object (mutated in place by the loop)
    locIdx,     \* index of the next experience of the for loop
    locRaised,  \* TRUE when the except clause has run
    locResult,  \* the returned record
    locClassified \* the arguments of the calls of is_nz_location, in order

locVars == <<locPc, locInput, locRec, locIdx, locRaised, locResult,
             locClassified>>

\* state of one call of DocGenerator.prepare_context
VARIABLES
    ctxPc,      \* idle | loop | finish | returned | raised
    ctxInput,   \* cv_data as it was when it was passed in
    cv_data,    \* the record object
    ctxIdx,     \* index of the next experience of the for loop
    months,     \* duration_months of the experiences processed so far
    nz_months,
    international_months,
    total_months,
    nz_employers,
    international_employers,
    nz_positions,
    international_positions,
    ctxRaised,  \* the exception that left prepare_context, or "none"
    context     \* the returned context

ctxVars == <<ctxPc, ctxInput, cv_data, ctxIdx, months, nz_months,
             international_months, total_months, nz_employers,
             international_employers, nz_positions, international_positions,
             ctxRaised, context>>

\* a LocationService object and one call of its is_nz_location
VARIABLES
    svcPc,          \* none | constructed | raised | called | search | returned
    locations_file, \* what data/nz_locations.json held when it was loaded
    nz_locations,   \* self.nz_locations
    tokens,         \* the words the argument of the call is made of
    location_str,   \* the argument of the call
    location_lower, \* the local variable of is_nz_location
    svcResult       \* the value returned by the call

svcVars == <<svcPc, locations_file, nz_locations, tokens, location_str,
             location_lower, svcResult>>

\* the cache of the company suffixes and the threads that call
\* format_company_name
VARIABLES
    COMPANY_SUFFIXES, \* the global _COMPANY_SUFFIXES: "None" or a table
    sufPc,            \* thread -> position in format_company_name
    sufCalls,         \* thread -> calls of format_company_name made
    sufLoaded,        \* thread -> what its load_company_suffixes returned
    loads,            \* executions of load_company_suffixes
    assignments       \* the tables assigned to _COMPANY_SUFFIXES, in order

sufVars == <<COMPANY_SUFFIXES, sufPc, sufCalls, sufLoaded, loads, assignments>>

\* basic_logger: its module globals, its two files and the thread using it
VARIABLES
    PRODUCTION_MODE,
    LOG_LEVEL,
    CAPTURE_STDOUT,
    LOGGER_INITIALIZED, \* the global _LOGGER_INITIALIZED
    stdout,         \* sys.stdout: "original" or "logging" (a LoggingStream)
    lockHeld,       \* LOG_LOCK is held
    logPc,          \* idle | acquire | write | print | release | blocked
    pending,        \* the messages write_log still has to write, in order
    mainLog,        \* the entries appended to LOG_FILE
    debugLog,       \* the entries appended to DEBUG_LOG_FILE
    lastOp,         \* the last call made by the program, the lengths of the
                    \* two logs when it was made, and the mode the program
                    \* asked for last
    logOps          \* calls made by the program

logVars == <<PRODUCTION_MODE, LOG_LEVEL, CAPTURE_STDOUT, LOGGER_INITIALIZED,
             stdout, lockHeld, logPc, pending, mainLog, debugLog, lastOp,
             logOps>>

\* format_company_name as a function of the short-word list of the deployment
VARIABLES
    SHORT_WORDS,    \* the global _SHORT_WORDS
    fmtPc,          \* import | ready | returned
    fmtInput,       \* the name passed to the last call of format_company_name
    fmtOutput       \* what that call returned

fmtVars == <<SHORT_WORDS, fmtPc, fmtInput, fmtOutput>>

\* the total years of experience of one record, as the blurb stage and the
\* document stage of one run compute it
VARIABLES
    yrPc,           \* idle | parsed | blurbed | located | done
    yrRec,          \* professional_experiences of the record of the run
    blurbYears,     \* total_years of generate_blurb_with_claude
    docYears        \* total_years of prepare_context

yrVars == <<yrPc, yrRec, blurbYears, docYears>>

\* the requests of one blurb stage: generate_blurb_with_claude around
\* make_claude_api_call
VARIABLES
    blbPc,          \* idle | request | except | returned
    blbOuter,       \* attempt of the loop of generate_blurb_with_claude
    blbAttempt,     \* attempt of the loop of make_claude_api_call
    blbRaised,      \* what make_claude_api_call raised
    blbRequests,    \* calls of client.messages.create made by the stage
    blbResult       \* what generate_blurb_with_claude returned

blbVars == <<blbPc, blbOuter, blbAttempt, blbRaised, blbRequests, blbResult>>

\* save_output_to_downloads, called by the runs for outputs of one name
VARIABLES
    downloads,      \* Downloads: candidate name -> the copy stored under it
    dlPc,           \* per run: idle | probe | copy
    dest_path,      \* per run: the candidate name (0 is the original name,
                    \* n is stem_n)
    counter,        \* per run: the counter of the while loop
    dlSaves,        \* per run: calls made
    dlSaved,        \* per run: the name the last call returned, or -1
    dlLost          \* the copies that another copy has replaced

dlVars == <<downloads, dlPc, dest_path, counter, dlSaves, dlSaved, dlLost>>

\* cleanup_directory on a directory of generated documents
VARIABLES
    mtime,          \* file name -> modification time, 0 for no such file
    clock,          \* the time of the last write
    cleaned         \* the directory before and after the last cleanup

dirVars == <<mtime, clock, cleaned>>

\* the temporary files of upload_file_route and process_cv_pipeline
VARIABLES
    tmpPc,          \* per request: idle | saved | pipeline | stages |
                    \* finally | done
    routeTemp,      \* per request: the temporary file of upload_file_route
                    \* exists
    pipeTemp,       \* per request: the temporary .docx of
                    \* process_cv_pipeline exists
    tmpResponse     \* per request: the response returned

tmpVars == <<tmpPc, routeTemp, pipeTemp, tmpResponse>>

\* feedback_manager, the FeedbackManager of the process
VARIABLES
    messages,       \* FeedbackManager.messages: [id, type], id numbers the
                    \* calls of add_message
    added,          \* messages added since the construction
    stage_progress, \* processing_status.stage_progress: stage -> status,
                    \* "none" for a stage that is not a key
    current_stage,  \* processing_status.current_stage
    fbRun           \* whether start_processing was called, and the stages
                    \* started and the errors reported since its last call

fbVars == <<messages, added, stage_progress, current_stage, fbRun>>

vars == <<pipeVars, locVars, ctxVars, svcVars, sufVars, logVars, fmtVars,
          yrVars, blbVars, dlVars, dirVars, tmpVars, fbVars>>

\* what an action of one part leaves alone
notPipeVars == <<locVars, ctxVars, svcVars, sufVars, logVars, fmtVars,
                 yrVars, blbVars, dlVars, dirVars, tmpVars, fbVars>>
notLocVars == <<pipeVars, ctxVars, svcVars, sufVars, logVars, fmtVars,
                yrVars, blbVars, dlVars, dirVars, tmpVars, fbVars>>
notCtxVars == <<pipeVars, locVars, svcVars, sufVars, logVars, fmtVars,
                yrVars, blbVars, dlVars, dirVars, tmpVars, fbVars>>
notSvcVars == <<pipeVars, locVars, ctxVars, sufVars, logVars, fmtVars,
                yrVars, blbVars, dlVars, dirVars, tmpVars, fbVars>>
notSufVars == <<pipeVars, locVars, ctxVars, svcVars, logVars, fmtVars,
                yrVars, blbVars, dlVars, dirVars, tmpVars, fbVars>>
notLogVars == <<pipeVars, locVars, ctxVars, svcVars, sufVars, fmtVars,
                yrVars, blbVars, dlVars, dirVars, tmpVars, fbVars>>
notFmtVars == <<pipeVars, locVars, ctxVars, svcVars, sufVars, logVars,
                yrVars, blbVars, dlVars, dirVars, tmpVars, fbVars>>
notYrVars == <<pipeVars, locVars, ctxVars, svcVars, sufVars, logVars,
               fmtVars, blbVars, dlVars, dirVars, tmpVars, fbVars>>
notBlbVars == <<pipeVars, locVars, ctxVars, svcVars, sufVars, logVars,
                fmtVars, yrVars, dlVars, dirVars, tmpVars, fbVars>>
notDlVars == <<pipeVars, locVars, ctxVars, svcVars, sufVars, logVars,
               fmtVars, yrVars, blbVars, dirVars, tmpVars, fbVars>>
notDirVars == <<pipeVars, locVars, ctxVars, svcVars, sufVars, logVars,
                fmtVars, yrVars, blbVars, dlVars, tmpVars, fbVars>>
notTmpVars == <<pipeVars, locVars, ctxVars, svcVars, sufVars, logVars,
                fmtVars, yrVars, blbVars, dlVars, dirVars, fbVars>>
notFbVars == <<pipeVars, locVars, ctxVars, svcVars, sufVars, logVars,
               fmtVars, yrVars, blbVars, dlVars, dirVars, tmpVars>>

\* ------------------------------------------------------------------------
\* Decisions of the retry helpers and of the orchestrator
\* ------------------------------------------------------------------------
\* firebase_config.upload_file: a signed URL, None, or an exception
UploadResults == {"path", "empty", "exception"}
\* requests.post: status 200 (with a JSON body), a 5xx status, another
\* status, requests.Timeout, another requests.exceptions.RequestException
ParserResponses == {"200", "5xx", "4xx", "timeout", "reqexc"}
\* client.messages.create: a response, an error with status_code 529, an
\* error of another kind, a requests.exceptions.RequestException
ClaudeResponses == {"ok", "overloaded", "other", "reqexc"}

\* retry_firebase_upload: `if firebase_path:` (an exception skips the test)
UploadSucceeded(result) == result = "path"

\* variant: the wait grows by the base wait instead of by one second
FirebaseWaitTime_M(a) == base_wait * (a + 1)

\* retry_firebase_upload: wait_time
FirebaseWaitTime(a) == IF a > 0 THEN base_wait + (a * 1) ELSE base_wait

\* variant: a timeout is retried like a connection error
ParserRetryable_M(resp, a) ==
    /\ resp \in {"5xx", "reqexc", "timeout"}
    /\ a < parser_max_retries - 1

\* make_parser_api_call: the answers that reach a `continue`
ParserRetryable(resp, a) ==
    /\ resp \in {"5xx", "reqexc"}
    /\ a < parser_max_retries - 1

\* variant: the exponent is one too large
ParserSleepTime_M(a) == parser_initial_delay * (2 ^ (a + 1))

\* make_parser_api_call: sleep_time = delay * (2 ** attempt)
ParserSleepTime(a) == parser_initial_delay * (2 ^ a)

\* variant: every error is retried, not only status 529
ClaudeRetryable_M(err, a) == a < claude_max_retries - 1

\* make_claude_api_call: the errors that reach the `continue`
ClaudeRetryable(err, a) ==
    /\ err = "overloaded"
    /\ a < claude_max_retries - 1

\* make_claude_api_call: sleep_time = delay * (2 ** attempt)
ClaudeSleepTime(a) == claude_initial_delay * (2 ^ a)

\* variant: the result of the upload is not tested
StoreFailed_M(path) == FALSE

\* process_cv_pipeline: `if not firebase_path:`
StoreFailed(path) == path = "none"

\* process_cv_pipeline: `if not parsed_result:`
ParseFailed(result) == result = "none"

\* variant: a dict without a path is returned whatever its status
BlurbVerdict_M(result) ==
    IF result.path # "" THEN "continue" ELSE "return"

\* process_cv_pipeline, stage 3: what the pipeline does with the dict that
\* generate_blurb_with_claude returned
BlurbVerdict(result) ==
    IF result.path # "" THEN "continue"
    ELSE IF result.status = "error" THEN "return"
    ELSE "raise"

\* ------------------------------------------------------------------------
\* Pipeline: initial state
\* ------------------------------------------------------------------------
PipeInit ==
    /\ pc = [r \in Runs |-> "idle"]
    /\ fname = [r \in Runs |-> ""]
    /\ stage = [r \in Runs |-> [s \in StageNames |-> "pending"]]
    /\ helper = [r \in Runs |-> "none"]
    /\ attempt = [r \in Runs |-> 0]
    /\ calls = [r \in Runs |-> 0]
    /\ sleeps = [r \in Runs |-> <<>>]
    /\ lastResp = [r \in Runs |-> "none"]
    /\ raised = [r \in Runs |-> "none"]
    /\ outer = [r \in Runs |-> 0]
    /\ delay = [r \in Runs |-> 0]
    /\ temp = [r \in Runs |-> NoRun]
    /\ mem = [r \in Runs |-> NoRun]
    /\ docFrom = [r \in Runs |-> NoRun]
    /\ outcome = [r \in Runs |-> NoOutcome]
    /\ files = [p \in Paths |-> NoRun]
    /\ blobs = [n \in Names |-> NoRun]
    /\ writers = [p \in Paths |-> {}]
    /\ totalYearsIn = {}

\* ---- building blocks --------------------------------------------------
\* a write of content c to path p by run r, by a stage before context
\* building: the record written has no computed total
WriteFile(r, p, c) ==
    /\ files' = [files EXCEPT ![p] = c]
    /\ writers' = [writers EXCEPT ![p] = @ \cup {r}]
    /\ totalYearsIn' = totalYearsIn \ {p}

\* how stage s ended: ok tells whether it produced its output
Ended(ok) == IF ok THEN "succeeded" ELSE "failed"

\* process_cv_pipeline returns `out` when stage s has ended
Return(r, s, ok, out) ==
    /\ pc' = [pc EXCEPT ![r] = "done"]
    /\ stage' = [stage EXCEPT ![r][s] = Ended(ok)]
    /\ outcome' = [outcome EXCEPT ![r] = out]

\* an exception of stage s reaches the except clause of process_cv_pipeline
ReturnFailure(r, s, out) == Return(r, s, FALSE, out)

\* process_cv_pipeline goes on from stage s, which has ended, to stage n at
\* position p
Continue(r, s, ok, n, p) ==
    /\ pc' = [pc EXCEPT ![r] = p]
    /\ stage' = [stage EXCEPT ![r][s] = Ended(ok), ![r][n] = "in_progress"]
    /\ outcome' = outcome

\* stage s succeeded and stage n is entered at position p
Advance(r, s, n, p) == Continue(r, s, TRUE, n, p)

\* a retry helper is entered: its counters start afresh
EnterHelper(r, h) ==
    /\ helper' = [helper EXCEPT ![r] = h]
    /\ attempt' = [attempt EXCEPT ![r] = 0]
    /\ calls' = [calls EXCEPT ![r] = 0]
    /\ sleeps' = [sleeps EXCEPT ![r] = <<>>]
    /\ lastResp' = [lastResp EXCEPT ![r] = "none"]

helperVars == <<helper, attempt, calls, sleeps, lastResp>>
blurbVars == <<raised, outer, delay>>

\* ---- what generate_blurb_with_claude returns ---------------------------
BlurbPathResult == [path |-> "enriched", success |-> "absent",
                    message |-> "", status |-> ""]
\* the outer `except Exception`: {"path": ""}
BlurbEmptyResult == [path |-> "", success |-> "absent",
                     message |-> "", status |-> ""]
\* the dict returned when the request loop is exhausted
BlurbAiResult == [path |-> "", success |-> "false",
                  message |-> "ai_problems", status |-> "error"]

\* ------------------------------------------------------------------------
\* upload_file_route: the uploaded file is copied to uploads/<filename>
\* ------------------------------------------------------------------------
UploadRoute(r) ==
    /\ pc[r] = "idle"
    /\ \E n \in Names :
         /\ fname' = [fname EXCEPT ![r] = n]
         /\ WriteFile(r, UploadPath(n), r)
    /\ pc' = [pc EXCEPT ![r] = "pipeline"]
    /\ UNCHANGED <<stage, helperVars, blurbVars, temp, mem,
                   docFrom, outcome, blobs>>
    /\ UNCHANGED notPipeVars

\* process_cv_pipeline up to the call of retry_firebase_upload: the upload
\* is copied to a temporary file
PipelineStart(r) ==
    /\ pc[r] = "pipeline"
    /\ \E copied \in BOOLEAN :
         IF copied
         THEN /\ temp' = [temp EXCEPT ![r] = files[UploadPath(fname[r])]]
              /\ stage' = [stage EXCEPT ![r]["store"] = "in_progress"]
              /\ pc' = [pc EXCEPT ![r] = "store"]
              /\ EnterHelper(r, "upload")
              /\ outcome' = outcome
         ELSE /\ ReturnFailure(r, "store", ErrorOutcome("error:copy_failed"))
              /\ UNCHANGED <<temp, helperVars>>
    /\ UNCHANGED <<fname, blurbVars, mem, docFrom, files, blobs,
                   writers, totalYearsIn>>
    /\ UNCHANGED notPipeVars

\* process_cv_pipeline after retry_firebase_upload returned `path`
AfterStore(r, path) ==
    LET ok == path = "url" IN
    IF StoreFailed(path)
    THEN Return(r, "store", ok, StorageOutcome)
    ELSE Continue(r, "store", ok, "parse", "parse_download")

\* one iteration of the loop of retry_firebase_upload
StoreAttempt(r) ==
    /\ pc[r] = "store"
    /\ \E res \in UploadResults :
         LET a == attempt[r] IN
         /\ calls' = [calls EXCEPT ![r] = @ + 1]
         /\ lastResp' = [lastResp EXCEPT ![r] = res]
         /\ helper' = helper
         /\ IF UploadSucceeded(res)
            THEN /\ blobs' = [blobs EXCEPT ![fname[r]] = temp[r]]
                 /\ UNCHANGED <<attempt, sleeps>>
                 /\ AfterStore(r, "url")
            ELSE IF a < upload_max_retries - 1
            THEN /\ sleeps' = [sleeps EXCEPT ![r] = Append(@, FirebaseWaitTime(a))]
                 /\ attempt' = [attempt EXCEPT ![r] = a + 1]
                 /\ UNCHANGED <<blobs, pc, stage, outcome>>
            ELSE /\ UNCHANGED <<blobs, attempt, sleeps>>
                 /\ AfterStore(r, "none")
    /\ UNCHANGED <<fname, blurbVars, temp, mem, docFrom, files, writers, totalYearsIn>>
    /\ UNCHANGED notPipeVars

\* process_cv_pipeline after send_to_cv_parser returned `result`
\* ("none", or the dict of save_parsed_data with its path)
AfterParse(r, result) ==
    LET ok == result = "parsed" IN
    IF ParseFailed(result)
    THEN Return(r, "parse", ok, PdfOutcome)
    ELSE IF result = ""
    THEN ReturnFailure(r, "parse", ErrorOutcome("error:no_parser_path"))
    ELSE Continue(r, "parse", ok, "blurb", "blurb_load")

\* send_to_cv_parser: the uploaded file is fetched from its signed URL
ParseDownload(r) ==
    /\ pc[r] = "parse_download"
    /\ \E fetched \in BOOLEAN :
         IF fetched
         THEN /\ mem' = [mem EXCEPT ![r] = blobs[fname[r]]]
              /\ pc' = [pc EXCEPT ![r] = "parser_request"]
              /\ EnterHelper(r, "parser")
              /\ UNCHANGED <<stage, outcome>>
         ELSE /\ AfterParse(r, "none")
              /\ UNCHANGED <<mem, helperVars>>
    /\ UNCHANGED <<fname, blurbVars, temp, docFrom, files, blobs,
                   writers, totalYearsIn>>
    /\ UNCHANGED notPipeVars

\* one iteration of the loop of make_parser_api_call; on a 200 answer
\* send_to_cv_parser saves the parsed record (save_parsed_data)
ParserRequest(r) ==
    /\ pc[r] = "parser_request"
    /\ \E resp \in ParserResponses, saved \in BOOLEAN :
         LET a == attempt[r] IN
         /\ calls' = [calls EXCEPT ![r] = @ + 1]
         /\ lastResp' = [lastResp EXCEPT ![r] = resp]
         /\ helper' = helper
         /\ IF resp = "200"
            THEN /\ UNCHANGED <<attempt, sleeps>>
                 /\ IF saved
                    THEN /\ WriteFile(r, ParsedPath(fname[r]), mem[r])
                         /\ AfterParse(r, "parsed")
                    ELSE /\ UNCHANGED <<files, writers, totalYearsIn>>
                         /\ AfterParse(r, "")
            ELSE IF ParserRetryable(resp, a)
            THEN /\ sleeps' = [sleeps EXCEPT ![r] = Append(@, ParserSleepTime(a))]
                 /\ attempt' = [attempt EXCEPT ![r] = a + 1]
                 /\ UNCHANGED <<files, writers, totalYearsIn, pc, stage, outcome>>
            ELSE /\ UNCHANGED <<attempt, sleeps, files, writers, totalYearsIn>>
                 /\ AfterParse(r, "none")
    /\ UNCHANGED <<fname, blurbVars, temp, mem, docFrom, blobs>>
    /\ UNCHANGED notPipeVars

\* process_cv_pipeline after generate_blurb_with_claude returned `result`
AfterBlurb(r, result) ==
    LET ok == result.path # "" IN
    IF BlurbVerdict(result) = "continue"
    THEN Continue(r, "blurb", ok, "location", "locate")
    ELSE IF BlurbVerdict(result) = "return"
    THEN Return(r, "blurb", ok,
             [returned |-> TRUE, success |-> result.success,
              status |-> result.status, message |-> result.message,
              retry_as_pdf |-> FALSE])
    ELSE ReturnFailure(r, "blurb", ErrorOutcome("error:blurb_failed"))

\* generate_blurb_with_claude up to its request loop: the parsed JSON is read
BlurbLoad(r) ==
    /\ pc[r] = "blurb_load"
    /\ \E loaded \in BOOLEAN :
         IF loaded
         THEN /\ mem' = [mem EXCEPT ![r] = files[ParsedPath(fname[r])]]
              /\ pc' = [pc EXCEPT ![r] = "claude_request"]
              /\ EnterHelper(r, "claude")
              /\ raised' = [raised EXCEPT ![r] = "none"]
              /\ outer' = [outer EXCEPT ![r] = 0]
              /\ delay' = [delay EXCEPT ![r] = blurb_initial_delay]
              /\ UNCHANGED <<stage, outcome>>
         ELSE /\ AfterBlurb(r, BlurbEmptyResult)
              /\ UNCHANGED <<mem, helperVars, blurbVars>>
    /\ UNCHANGED <<fname, temp, docFrom, files, blobs, writers, totalYearsIn>>
    /\ UNCHANGED notPipeVars

\* one iteration of the loop of make_claude_api_call; on a response
\* generate_blurb_with_claude writes the record with its blurb
ClaudeRequest(r) ==
    /\ pc[r] = "claude_request"
    /\ \E resp \in ClaudeResponses, saved \in BOOLEAN :
         LET a == attempt[r] IN
         /\ calls' = [calls EXCEPT ![r] = @ + 1]
         /\ lastResp' = [lastResp EXCEPT ![r] = resp]
         /\ UNCHANGED <<helper, outer, delay>>
         /\ IF resp = "ok"
            THEN /\ UNCHANGED <<attempt, sleeps, raised>>
                 /\ IF saved
                    THEN /\ WriteFile(r, BlurbPath(fname[r]), mem[r])
                         /\ AfterBlurb(r, BlurbPathResult)
                    ELSE /\ UNCHANGED <<files, writers, totalYearsIn>>
                         /\ AfterBlurb(r, BlurbEmptyResult)
            ELSE IF ClaudeRetryable(resp, a)
            THEN /\ sleeps' = [sleeps EXCEPT ![r] = Append(@, ClaudeSleepTime(a))]
                 /\ attempt' = [attempt EXCEPT ![r] = a + 1]
                 /\ UNCHANGED <<raised, files, writers, totalYearsIn, pc, stage, outcome>>
            ELSE \* `raise e` or `raise last_error`
                 /\ raised' = [raised EXCEPT ![r] = resp]
                 /\ pc' = [pc EXCEPT ![r] = "blurb_except"]
                 /\ UNCHANGED <<attempt, sleeps, files, writers, totalYearsIn, stage, outcome>>
    /\ UNCHANGED <<fname, temp, mem, docFrom, blobs>>
    /\ UNCHANGED notPipeVars

\* generate_blurb_with_claude: the except clauses that receive what
\* make_claude_api_call raised
BlurbExcept(r) ==
    /\ pc[r] = "blurb_except"
    /\ IF raised[r] = "reqexc"
       THEN \* except requests.exceptions.RequestException
            IF outer[r] < blurb_max_retries - 1
            THEN /\ outer' = [outer EXCEPT ![r] = @ + 1]
                 /\ delay' = [delay EXCEPT ![r] = @ * 2]
                 /\ pc' = [pc EXCEPT ![r] = "claude_request"]
                 /\ EnterHelper(r, "claude")
                 /\ UNCHANGED <<raised, stage, outcome>>
            ELSE /\ AfterBlurb(r, BlurbAiResult)
                 /\ UNCHANGED <<helperVars, blurbVars>>
       ELSE \* except Exception
            /\ AfterBlurb(r, BlurbEmptyResult)
            /\ UNCHANGED <<helperVars, blurbVars>>
    /\ UNCHANGED <<fname, temp, mem, docFrom, files, blobs, writers, totalYearsIn>>
    /\ UNCHANGED notPipeVars

\* stage 4: the record with its blurb is read and enriched in memory
Locate(r) ==
    /\ pc[r] = "locate"
    /\ \E loaded \in BOOLEAN :
         IF loaded
         THEN /\ mem' = [mem EXCEPT ![r] = files[BlurbPath(fname[r])]]
              /\ Advance(r, "location", "persist", "persist")
         ELSE /\ ReturnFailure(r, "location", ErrorOutcome("error:location_io"))
              /\ mem' = mem
    /\ EnterHelper(r, "none")
    /\ raised' = [raised EXCEPT ![r] = "none"]
    /\ outer' = [outer EXCEPT ![r] = 0]
    /\ delay' = [delay EXCEPT ![r] = 0]
    /\ UNCHANGED <<fname, temp, docFrom, files, blobs, writers, totalYearsIn>>
    /\ UNCHANGED notPipeVars

\* stage 5: the enriched record is written to <base_name>_enriched.json
Persist(r) ==
    /\ pc[r] = "persist"
    /\ \E written \in BOOLEAN :
         IF written
         THEN /\ WriteFile(r, EnrichedPath(fname[r]), mem[r])
              /\ Advance(r, "persist", "document", "docgen")
         ELSE /\ ReturnFailure(r, "persist", ErrorOutcome("error:persist_io"))
              /\ UNCHANGED <<files, writers, totalYearsIn>>
    /\ UNCHANGED <<fname, helperVars, blurbVars, temp, mem, docFrom,
                   blobs>>
    /\ UNCHANGED notPipeVars

\* the points at which stage 6 can raise
DocFailures == {"template", "load", "context", "render", "empty", "download"}

\* stage 6: DocGenerator(template_path), generate_cv_document (which reads
\* the enriched JSON, in prepare_context writes the record with its total
\* years to <template stem>_enriched.json, and saves the document) and
\* save_output_to_downloads
DocGen(r) ==
    /\ pc[r] = "docgen"
    /\ \E f \in DocFailures \cup {"none"} :
         LET src == files[EnrichedPath(fname[r])]
             ctxWritten == f \in {"render", "empty", "download", "none"}
             docWritten == f \in {"empty", "download", "none"}
         IN
         /\ files' = [p \in Paths |->
                        IF p = ContextPath /\ ctxWritten THEN src
                        ELSE IF p = OutputPath(fname[r]) /\ docWritten THEN src
                        ELSE files[p]]
         /\ writers' = [p \in Paths |->
                        IF \/ p = ContextPath /\ ctxWritten
                           \/ p = OutputPath(fname[r]) /\ docWritten
                        THEN writers[p] \cup {r}
                        ELSE writers[p]]
         /\ totalYearsIn' = IF ctxWritten THEN totalYearsIn \cup {ContextPath}
                            ELSE totalYearsIn
         /\ docFrom' = [docFrom EXCEPT ![r] = IF docWritten THEN src ELSE @]
         /\ IF f = "none"
            THEN /\ pc' = [pc EXCEPT ![r] = "done"]
                 /\ stage' = [stage EXCEPT ![r]["document"] = "succeeded"]
                 /\ outcome' = [outcome EXCEPT ![r] = SuccessOutcome]
            ELSE ReturnFailure(r, "document", ErrorOutcome("error:document"))
    /\ UNCHANGED <<fname, helperVars, blurbVars, temp, mem, blobs>>
    /\ UNCHANGED notPipeVars

RunStep(r) ==
    \/ UploadRoute(r)
    \/ PipelineStart(r)
    \/ StoreAttempt(r)
    \/ ParseDownload(r)
    \/ ParserRequest(r)
    \/ BlurbLoad(r)
    \/ ClaudeRequest(r)
    \/ BlurbExcept(r)
    \/ Locate(r)
    \/ Persist(r)
    \/ DocGen(r)

\* ------------------------------------------------------------------------
\* LocationService
\* ------------------------------------------------------------------------
\* Text is a sequence of one-character strings.  A JSON value of a job is a
\* string, null, or absent (the key is missing).
Str(s) == [t |-> "str", v |-> s]
Null == [t |-> "null", v |-> <<>>]
Absent == [t |-> "absent", v |-> <<>>]

LowerLetters == <<"a", "b", "c", "d", "e", "f", "g", "h", "i", "j", "k", "l", "m",
                  "n", "o", "p", "q", "r", "s", "t", "u", "v", "w", "x", "y", "z">>
UpperLetters == <<"A", "B", "C", "D", "E", "F", "G", "H", "I", "J", "K", "L", "M",
                  "N", "O", "P", "Q", "R", "S", "T", "U", "V", "W", "X", "Y", "Z">>
LowerCase == {LowerLetters[i] : i \in 1..26}
UpperCase == {UpperLetters[i] : i \in 1..26}
Digits == {"0", "1", "2", "3", "4", "5", "6", "7", "8", "9"}
LowerOf == [c \in UpperCase |->
              LowerLetters[CHOOSE i \in 1..26 : UpperLetters[i] = c]]
UpperOf == [c \in LowerCase |->
              UpperLetters[CHOOSE i \in 1..26 : LowerLetters[i] = c]]
\* the characters \w of the regular expressions
WordChars == LowerCase \cup UpperCase \cup Digits \cup {"_"}

\* str.lower
Lower(s) == [i \in 1..Len(s) |-> IF s[i] \in UpperCase THEN LowerOf[s[i]] ELSE s[i]]

\* str.replace(old, ' ') for a one-character old
ReplaceBySpace(s, old) == [i \in 1..Len(s) |-> IF s[i] = old THEN " " ELSE s[i]]

\* str.strip
RECURSIVE LStrip(_)
LStrip(s) == IF s # <<>> /\ Head(s) = " " THEN LStrip(Tail(s)) ELSE s
RECURSIVE RStrip(_)
RStrip(s) == IF s # <<>> /\ s[Len(s)] = " "
             THEN RStrip(SubSeq(s, 1, Len(s) - 1)) ELSE s
Strip(s) == RStrip(LStrip(s))

\* LocationService._clean_location
CleanLocation(s) ==
    IF s = <<>> THEN <<>>
    ELSE Strip(ReplaceBySpace(ReplaceBySpace(Lower(s), ","), "."))

\* a \b of a regular expression between positions i and i+1 of s
Boundary(s, i) ==
    LET before == i >= 1 /\ s[i] \in WordChars
        after == i < Len(s) /\ s[i + 1] \in WordChars
    IN before # after

\* variant: the pattern has no \b, so a part of a longer word matches
WordSearch_M(w, s) ==
    \E i \in 1..Len(s) :
        /\ i + Len(w) - 1 <= Len(s)
        /\ SubSeq(s, i, i + Len(w) - 1) = w

\* re.search(r'\b' + re.escape(w) + r'\b', s)
WordSearch(w, s) ==
    \E i \in 1..Len(s) :
        /\ i + Len(w) - 1 <= Len(s)
        /\ SubSeq(s, i, i + Len(w) - 1) = w
        /\ Boundary(s, i - 1)
        /\ Boundary(s, i + Len(w) - 1)

\* self.nz_locations, as loaded from data/nz_locations.json
Gazetteer == {<<"a", "u", "c", "k", "l", "a", "n", "d">>,
              <<"w", "e", "l", "l", "i", "n", "g", "t", "o", "n">>}

\* is_nz_location: the loop over self.nz_locations
MatchesAny(locations, lower) == \E w \in locations : WordSearch(w, lower)

\* LocationService.is_nz_location, of a service that loaded the gazetteer
IsNzLocation(s) ==
    IF s = <<>> THEN FALSE
    ELSE MatchesAny(Gazetteer, CleanLocation(s))

\* job.get(key, "").strip(): defined for a string or a missing key
CanStrip(val) == val.t # "null"
GetStripped(val) == IF val.t = "absent" THEN <<>> ELSE Strip(val.v)

\* the body of the for loop of enrich_experience_locations raises
JobRaises(job) ==
    \/ ~CanStrip(job.location)
    \/ /\ GetStripped(job.location) = <<>>
       /\ ~CanStrip(job.company)

\* variant: the company name is not used when the location is blank
JobLocationStr_M(job) == GetStripped(job.location)

\* the text the loop body classifies
JobLocationStr(job) ==
    IF GetStripped(job.location) # <<>>
    THEN GetStripped(job.location)
    ELSE GetStripped(job.company)

\* the loop body: job["is_nz"] = self.is_nz_location(location_str)
EnrichJob(job) ==
    [job EXCEPT !.is_nz = IF IsNzLocation(JobLocationStr(job))
                          THEN "true" ELSE "false"]

\* ---- inputs ------------------------------------------------------------
MaxExps == 2

AucklandNZ == <<"A", "u", "c", "k", "l", "a", "n", "d", ",", " ", "N", "Z">>
Sydney == <<"S", "y", "d", "n", "e", "y">>
BlankText == <<" ">>
WellingtonCo == <<"w", "e", "l", "l", "i", "n", "g", "t", "o", "n", " ", "c", "o">>

LocationValues == {Str(AucklandNZ), Str(Sydney), Str(BlankText), Absent, Null}
CompanyValues == {Str(WellingtonCo), Null}
FlagValues == {"absent", "true", "false"}

Experiences == [location : LocationValues, company : CompanyValues,
                is_nz : FlagValues]

\* the professional_experiences of the records passed in
LocRecords == UNION {[1..n -> Experiences] : n \in 0..MaxExps}

\* enrich_experience_locations is called with a record
LocCall ==
    /\ locPc = "idle"
    /\ \E rec \in LocRecords :
         /\ locInput' = rec
         /\ locRec' = rec
    /\ locIdx' = 1
    /\ locPc' = "loop"
    /\ UNCHANGED <<locRaised, locResult, locClassified>>
    /\ UNCHANGED notLocVars

\* one iteration of `for job in experiences`; an exception leaves the loop
\* for the except clause, which returns parsed_json
LocJob ==
    /\ locPc = "loop"
    /\ locIdx <= Len(locRec)
    /\ IF JobRaises(locRec[locIdx])
       THEN /\ locRaised' = TRUE
            /\ locResult' = locRec
            /\ locPc' = "returned"
            /\ UNCHANGED <<locRec, locIdx, locClassified>>
       ELSE /\ locRec' = [locRec EXCEPT ![locIdx] = EnrichJob(@)]
            /\ locClassified' = Append(locClassified,
                                       JobLocationStr(locRec[locIdx]))
            /\ locIdx' = locIdx + 1
            /\ UNCHANGED <<locRaised, locResult, locPc>>
    /\ UNCHANGED locInput
    /\ UNCHANGED notLocVars

\* the loop is over: the record is put back together and returned
LocReturn ==
    /\ locPc = "loop"
    /\ locIdx > Len(locRec)
    /\ locResult' = locRec
    /\ locPc' = "returned"
    /\ UNCHANGED <<locInput, locRec, locIdx, locRaised, locClassified>>
    /\ UNCHANGED notLocVars

LocIdle ==
    /\ locPc = "idle"
    /\ locInput = <<>>
    /\ locRec = <<>>
    /\ locIdx = 0
    /\ locRaised = FALSE
    /\ locResult = <<>>
    /\ locClassified = <<>>

\* ------------------------------------------------------------------------
\* format_company_name, for names made of letters, digits, spaces and
\* parentheses (the steps that handle hyphens and dots leave such names alone)
\* ------------------------------------------------------------------------
\* str.upper
Upper(s) == [i \in 1..Len(s) |-> IF s[i] \in LowerCase THEN UpperOf[s[i]] ELSE s[i]]

\* str.capitalize
Capitalize(s) ==
    IF s = <<>> THEN <<>>
    ELSE Upper(<<s[1]>>) \o Lower(Tail(s))

\* the position of the first space of s, or Len(s) + 1
FirstSpace(s) ==
    IF \E i \in 1..Len(s) : s[i] = " "
    THEN CHOOSE i \in 1..Len(s) : s[i] = " " /\ \A j \in 1..(i - 1) : s[j] # " "
    ELSE Len(s) + 1

\* str.split()
RECURSIVE Split(_)
Split(s) ==
    LET t == LStrip(s) IN
    IF t = <<>> THEN <<>>
    ELSE <<SubSeq(t, 1, FirstSpace(t) - 1)>>
            \o Split(SubSeq(t, FirstSpace(t), Len(t)))

\* ' '.join(words)
RECURSIVE Join(_)
Join(words) ==
    IF words = <<>> THEN <<>>
    ELSE IF Len(words) = 1 THEN words[1]
    ELSE words[1] \o <<" ">> \o Join(Tail(words))

\* load_company_suffixes, as it returns when company_status.json cannot be
\* read: the default table
DefaultSuffixes ==
    {<<<<"l", "p">>, <<"L", "P">>>>,
     <<<<"l", "l", "c">>, <<"L", "L", "C">>>>,
     <<<<"l", "t", "d">>, <<"L", "t", "d">>>>,
     <<<<"i", "n", "c">>, <<"I", "n", "c">>>>,
     <<<<"c", "o", "r", "p">>, <<"C", "o", "r", "p">>>>,
     <<<<"p", "l", "c">>, <<"P", "L", "C">>>>,
     <<<<"g", "m", "b", "h">>, <<"G", "m", "b", "H">>>>,
     <<<<"a", "g">>, <<"A", "G">>>>,
     <<<<"n", "v">>, <<"N", "V">>>>,
     <<<<"s", "a">>, <<"S", "A">>>>,
     <<<<"p", "t", "y">>, <<"P", "t", "y">>>>,
     <<<<"c", "o">>, <<"C", "o">>>>,
     <<<<"w", ".", "i", ".", "i">>, <<"W", ".", "I", ".", "I">>>>,
     <<<<"l", ".", "l", ".", "c">>, <<"L", "L", "C">>>>,
     <<<<"p", ".", "l", ".", "c">>, <<"P", "L", "C">>>>}

\* _SHORT_WORDS, as load_short_words left it when doc_generator was imported
ShortWords == SHORT_WORDS

\* format_company_name: common_words
common_words ==
    {<<"a", "n", "d">>,
     <<"o", "f">>,
     <<"t", "h", "e">>,
     <<"i", "n">>,
     <<"o", "n">>,
     <<"a", "t">>,
     <<"t", "o">>,
     <<"f", "o", "r">>,
     <<"w", "i", "t", "h">>,
     <<"b", "y">>,
     <<"d", "e">>,
     <<"v", "a", "n">>,
     <<"d", "e", "r">>,
     <<"d", "e", "n">>,
     <<"v", "o", "n">>,
     <<"u", "n", "d">>,
     <<"l", "e", "s">>,
     <<"l", "a">>,
     <<"e", "l">>}

SuffixKeys == {p[1] : p \in DefaultSuffixes}
SuffixValue(k) == (CHOOSE p \in DefaultSuffixes : p[1] = k)[2]

\* is_acronym, for a word of letters longer than 3 characters: of the
\* known_acronyms only GmbH is that long
GmbH == <<"G", "m", "b", "H">>
IsAcronym(word) == word = GmbH

\* the number of words, starting at word i, that form a company suffix
\* (the longest of at most 3), or 0
SuffixLen(words, i) ==
    LET cand == {j \in 1..3 : /\ i + j - 1 <= Len(words)
                              /\ Lower(Join(SubSeq(words, i, i + j - 1)))
                                    \in SuffixKeys}
    IN IF cand = {} THEN 0 ELSE CHOOSE j \in cand : \A k \in cand : k <= j

\* format_part: the loop over the words, from word i on; `done` holds
\* formatted_words
RECURSIVE FormatWords(_, _, _)
FormatWords(words, i, done) ==
    IF i > Len(words) THEN done
    ELSE LET word == words[i]
             word_lower == Lower(word)
             j == SuffixLen(words, i)
         IN
         IF word_lower = <<"k", "s", "a">>
         THEN FormatWords(words, i + 1, Append(done, <<"K", "S", "A">>))
         ELSE IF Upper(word) = <<"C", "O", "N", "T">>
         THEN FormatWords(words, i + 1, Append(done, <<"C", "o", "n", "t">>))
         ELSE IF j > 0
         THEN FormatWords(words, i + j,
                  Append(done, SuffixValue(Lower(Join(SubSeq(words, i, i + j - 1))))))
         ELSE IF Len(word) <= 3
         THEN FormatWords(words, i + 1,
                  Append(done, IF \E w \in ShortWords : Lower(w) = word_lower
                               THEN word ELSE Upper(word)))
         ELSE IF IsAcronym(word)
         THEN FormatWords(words, i + 1, Append(done, word))
         ELSE IF word_lower \in common_words /\ done # <<>>
         THEN FormatWords(words, i + 1, Append(done, word_lower))
         ELSE FormatWords(words, i + 1, Append(done, Capitalize(word)))

\* format_part
FormatPart(text) ==
    IF text = <<>> THEN <<>> ELSE Join(FormatWords(Split(text), 1, <<>>))

\* re.sub(r'\([^\)]*$', '', s): an opening parenthesis with no closing
\* one after it is removed with all that follows it
RemoveIncomplete(s) ==
    LET open == {i \in 1..Len(s) :
                   s[i] = "(" /\ \A j \in (i + 1)..Len(s) : s[j] # ")"}
    IN IF open = {} THEN s
       ELSE SubSeq(s, 1, (CHOOSE i \in open : \A k \in open : i <= k) - 1)

\* name.replace('(', ' (').replace(')', ') ')
RECURSIVE SpaceParentheses(_)
SpaceParentheses(s) ==
    IF s = <<>> THEN <<>>
    ELSE (IF Head(s) = "(" THEN <<" ", "(">>
          ELSE IF Head(s) = ")" THEN <<")", " ">>
          ELSE <<Head(s)>>) \o SpaceParentheses(Tail(s))

\* format_company_name: the loop over the characters that fills `parts`;
\* a parenthesis closes the part collected so far and starts the next one
RECURSIVE SplitParts(_, _, _)
SplitParts(s, current, parts) ==
    IF s = <<>>
    THEN IF current # <<>> THEN Append(parts, Strip(current)) ELSE parts
    ELSE IF Head(s) \in {"(", ")"}
    THEN SplitParts(Tail(s), <<Head(s)>>,
                    IF current # <<>> THEN Append(parts, Strip(current))
                    ELSE parts)
    ELSE SplitParts(Tail(s), Append(current, Head(s)), parts)

\* str.replace(' ', '')
RemoveSpaces(s) == SelectSeq(s, LAMBDA c : c # " ")

\* format_company_name: the formatting of one part
FormatOnePart(part) ==
    IF part # <<>> /\ Head(part) = "(" /\ part[Len(part)] = ")"
    THEN <<"(">>
           \o FormatPart(RemoveSpaces(Strip(SubSeq(part, 2, Len(part) - 1))))
           \o <<")">>
    ELSE FormatPart(part)

\* str.replace('  ', ' '): one pass from the left, without overlaps
RECURSIVE HalveSpaces(_)
HalveSpaces(s) ==
    IF Len(s) < 2 THEN s
    ELSE IF s[1] = " " /\ s[2] = " "
    THEN <<" ">> \o HalveSpaces(SubSeq(s, 3, Len(s)))
    ELSE <<s[1]>> \o HalveSpaces(Tail(s))

\* str.replace(' )', ')')
RECURSIVE CloseUp(_)
CloseUp(s) ==
    IF Len(s) < 2 THEN s
    ELSE IF s[1] = " " /\ s[2] = ")"
    THEN <<")">> \o CloseUp(SubSeq(s, 3, Len(s)))
    ELSE <<s[1]>> \o CloseUp(Tail(s))

\* format_company_name
FormatCompanyName(name) ==
    IF name = <<>> THEN <<>>
    ELSE LET parts == SplitParts(SpaceParentheses(RemoveIncomplete(name)),
                                 <<>>, <<>>)
             formatted_parts == [i \in 1..Len(parts) |-> FormatOnePart(parts[i])]
         IN RemoveIncomplete(
                Strip(CloseUp(HalveSpaces(Join(formatted_parts)))))

\* what short_words.json may hold: it cannot be read, or it lists linking
\* words in lower case or capitalised
ShortWordLists ==
    {{},
     {<<"a", "n", "d">>, <<"o", "f">>},
     {<<"A", "n", "d">>, <<"O", "f">>}}

\* the pieces the names passed to format_company_name are made of
NamePieces ==
    {<<"a", "c", "m", "e">>,
     <<"A", "N", "D">>,
     <<"o", "f">>,
     <<"W", "i", "t", "h">>,
     <<" ">>,
     <<"(">>,
     <<")">>}
\* pieces in a name
MaxPieces == 4

RECURSIVE Concat(_)
Concat(pieces) ==
    IF pieces = <<>> THEN <<>> ELSE Head(pieces) \o Concat(Tail(pieces))

CompanyNames ==
    UNION {{Concat(ps) : ps \in [1..n -> NamePieces]} : n \in 0..MaxPieces}

FmtIdle ==
    /\ SHORT_WORDS = {}
    /\ fmtPc = "import"
    /\ fmtInput = <<>>
    /\ fmtOutput = <<>>

\* the import of doc_generator: _SHORT_WORDS = load_short_words()
FmtImport ==
    /\ fmtPc = "import"
    /\ SHORT_WORDS' \in ShortWordLists
    /\ fmtPc' = "ready"
    /\ UNCHANGED <<fmtInput, fmtOutput>>
    /\ UNCHANGED notFmtVars

\* a call format_company_name(name); the function keeps nothing from one
\* call to the next, so one call is followed
FmtCall ==
    /\ fmtPc = "ready"
    /\ \E name \in CompanyNames :
         /\ fmtInput' = name
         /\ fmtOutput' = FormatCompanyName(name)
    /\ fmtPc' = "returned"
    /\ UNCHANGED SHORT_WORDS
    /\ UNCHANGED notFmtVars

\* ------------------------------------------------------------------------
\* DocGenerator.prepare_context
\* ------------------------------------------------------------------------
\* round_up_years
round_up_years(m) == (m + 11) \div 12

\* format_years_experience
format_years_experience(years, location) ==
    [years |-> years,
     text |-> IF years = 0 THEN "No work experience in"
              ELSE IF years = 1 THEN "year work experience in"
              ELSE "years work experience in",
     location |-> location]

\* variant: the foreign figure is what is left of the rounded total
YearsAggregation_M(nz_m, int_m, total_m) ==
    [total_years |-> round_up_years(total_m),
     nz_years |-> round_up_years(nz_m),
     international_years |-> round_up_years(total_m) - round_up_years(nz_m)]

\* prepare_context: months to years, with the adjustment of the
\* international years
YearsAggregation(nz_m, int_m, total_m) ==
    LET total_years == round_up_years(total_m)
        nz_years == round_up_years(nz_m)
        initial_international_years == round_up_years(int_m)
        international_years == total_years - nz_years
    IN IF international_years < initial_international_years
       THEN [total_years |-> nz_years + initial_international_years,
             nz_years |-> nz_years,
             international_years |-> initial_international_years]
       ELSE [total_years |-> total_years,
             nz_years |-> nz_years,
             international_years |-> international_years]

\* ---- duration_in_months -------------------------------------------------
\* a JSON value of duration_in_months: a missing key, an int, a str, a bool,
\* a float
DurAbsent == [t |-> "absent", n |-> 0, s |-> <<>>]
DurInt(n) == [t |-> "int", n |-> n, s |-> <<>>]
DurStr(s) == [t |-> "str", n |-> 0, s |-> s]
DurBool(b) == [t |-> "bool", n |-> IF b THEN 1 ELSE 0, s |-> <<>>]
DurFloat == [t |-> "float", n |-> 0, s |-> <<>>]

DigitChars == <<"0", "1", "2", "3", "4", "5", "6", "7", "8", "9">>
DigitValue(c) == (CHOOSE i \in 1..10 : DigitChars[i] = c) - 1

\* the text int(s) accepts: digits with an optional sign, blanks around
Unsigned(s) ==
    LET t == Strip(s) IN
    IF t # <<>> /\ t[1] \in {"+", "-"} THEN Tail(t) ELSE t
IsIntLiteral(s) ==
    /\ Unsigned(s) # <<>>
    /\ \A i \in 1..Len(Unsigned(s)) : Unsigned(s)[i] \in Digits

RECURSIVE DigitsValue(_)
DigitsValue(d) ==
    IF d = <<>> THEN 0
    ELSE 10 * DigitsValue(SubSeq(d, 1, Len(d) - 1)) + DigitValue(d[Len(d)])

\* int(s)
IntOf(s) ==
    IF Strip(s)[1] = "-" THEN 0 - DigitsValue(Unsigned(s))
    ELSE DigitsValue(Unsigned(s))

\* the exception the try block of the duration raises, or "none"
DurationRaises(d) ==
    IF d.t = "str" /\ ~IsIntLiteral(d.s) THEN "ValueError" ELSE "none"

\* variant: only TypeError is caught
DurationCaught_M(e) == e = "TypeError"

\* except (ValueError, TypeError)
DurationCaught(e) == e \in {"ValueError", "TypeError"}

\* duration_months after the try statement; a bool is an int to isinstance
DurationMonths(d) ==
    IF d.t = "absent" THEN 0
    ELSE IF d.t = "str"
    THEN IF DurationRaises(d) = "none" THEN IntOf(d.s) ELSE 0
    ELSE IF d.t \in {"int", "bool"} THEN d.n
    ELSE 0

\* exp.get(key, ''): the text, or nothing for a missing key or a null
TextOf(val) == IF val.t = "str" THEN val.v ELSE <<>>

\* exp.get('is_nz', False)
IsNz(exp) == exp.is_nz = "true"

\* ---- the record and the context -----------------------------------------
\* the value the parser gave basics.total_experience_in_years
ParserTotal == -1

\* variant: the formatted company names are stored on the record
UpdateTotal_M(rec, total_years) ==
    [total_experience_in_years |-> total_years,
     professional_experiences |->
        [i \in 1..Len(rec.professional_experiences) |->
            [rec.professional_experiences[i] EXCEPT
                !.company = Str(FormatCompanyName(TextOf(@)))]]]

\* cv_data[...]['basics']['total_experience_in_years'] = total_years
UpdateTotal(rec, total_years) ==
    [rec EXCEPT !.total_experience_in_years = total_years]

\* format_bullet_list: the lines of the list ('None' for no item)
format_bullet_list(items) ==
    [none |-> items = {}, lines |-> {FormatCompanyName(x) : x \in items}]

AcmeLtd == <<"a", "c", "m", "e", " ", "l", "t", "d">>
SiteForeman == <<"s", "i", "t", "e", " ", "f", "o", "r", "e", "m", "a", "n">>
Twelve == <<"1", "2">>
NotANumber == <<"a", "b", "c">>

CtxCompanyValues == {Str(AcmeLtd), Null}
CtxTitleValues == {Str(SiteForeman)}
DurationValues == {DurAbsent, DurInt(6), DurInt(18), DurStr(Twelve),
                   DurStr(NotANumber), DurBool(TRUE), DurFloat}

CtxExperiences == [company : CtxCompanyValues, title : CtxTitleValues,
                   location : {Str(Sydney)},
                   duration_in_months : DurationValues, is_nz : FlagValues]

\* the records passed to prepare_context
CtxRecords ==
    [total_experience_in_years : {ParserTotal},
     professional_experiences :
        UNION {[1..n -> CtxExperiences] : n \in 0..MaxExps}]

NoContext == [returned |-> FALSE]

CtxIdle ==
    /\ ctxPc = "idle"
    /\ ctxInput = <<>>
    /\ cv_data = <<>>
    /\ ctxIdx = 0
    /\ months = <<>>
    /\ nz_months = 0
    /\ international_months = 0
    /\ total_months = 0
    /\ nz_employers = {}
    /\ international_employers = {}
    /\ nz_positions = {}
    /\ international_positions = {}
    /\ ctxRaised = "none"
    /\ context = NoContext

\* prepare_context is called with a record
CtxCall ==
    /\ ctxPc = "idle"
    /\ \E rec \in CtxRecords :
         /\ ctxInput' = rec
         /\ cv_data' = rec
    /\ ctxIdx' = 1
    /\ ctxPc' = "loop"
    /\ UNCHANGED <<months, nz_months, international_months, total_months,
                   nz_employers, international_employers, nz_positions,
                   international_positions, ctxRaised, context>>
    /\ UNCHANGED notCtxVars

\* the set `s` after `if x: s.add(x)`
AddIf(s, x) == IF x # <<>> THEN s \cup {x} ELSE s

\* one iteration of `for exp in experiences`
CtxExp ==
    /\ ctxPc = "loop"
    /\ ctxIdx <= Len(cv_data.professional_experiences)
    /\ LET exp == cv_data.professional_experiences[ctxIdx]
           company_name == FormatCompanyName(TextOf(exp.company))
           position == TextOf(exp.title)
           e == DurationRaises(exp.duration_in_months)
           duration_months == DurationMonths(exp.duration_in_months)
       IN
       IF e # "none" /\ ~DurationCaught(e)
       THEN /\ ctxRaised' = e
            /\ ctxPc' = "raised"
            /\ UNCHANGED <<ctxIdx, months, nz_months, international_months,
                           total_months, nz_employers, international_employers,
                           nz_positions, international_positions>>
       ELSE /\ months' = Append(months, duration_months)
            /\ IF IsNz(exp)
               THEN /\ nz_months' = nz_months + duration_months
                    /\ nz_employers' = AddIf(nz_employers, company_name)
                    /\ nz_positions' = AddIf(nz_positions, position)
                    /\ UNCHANGED <<international_months, international_employers,
                                   international_positions>>
               ELSE /\ international_months' = international_months + duration_months
                    /\ international_employers' = AddIf(international_employers, company_name)
                    /\ international_positions' = AddIf(international_positions, position)
                    /\ UNCHANGED <<nz_months, nz_employers, nz_positions>>
            /\ total_months' = total_months + duration_months
            /\ ctxIdx' = ctxIdx + 1
            /\ UNCHANGED <<ctxRaised, ctxPc>>
    /\ UNCHANGED <<ctxInput, cv_data, context>>
    /\ UNCHANGED notCtxVars

\* after the loop: the years, the total on the record, the record written
\* to <template stem>_enriched.json, and the context returned
CtxFinish ==
    /\ ctxPc = "loop"
    /\ ctxIdx > Len(cv_data.professional_experiences)
    /\ LET y == YearsAggregation(nz_months, international_months, total_months) IN
       /\ cv_data' = UpdateTotal(cv_data, y.total_years)
       /\ \E written \in BOOLEAN :
            IF written
            THEN /\ context' =
                      [returned |-> TRUE,
                       nzyears |-> format_years_experience(y.nz_years, "New Zealand"),
                       internationalyears |->
                          format_years_experience(y.international_years,
                                                  "international markets"),
                       nzemployers |-> format_bullet_list(nz_employers),
                       internationalemployers |->
                          format_bullet_list(international_employers),
                       nzpositions |-> format_bullet_list(nz_positions),
                       internationalpositions |->
                          format_bullet_list(international_positions)]
                 /\ ctxPc' = "returned"
                 /\ ctxRaised' = ctxRaised
            ELSE /\ ctxRaised' = "OSError"
                 /\ ctxPc' = "raised"
                 /\ context' = context
    /\ UNCHANGED <<ctxInput, ctxIdx, months, nz_months, international_months,
                   total_months, nz_employers, international_employers,
                   nz_positions, international_positions>>
    /\ UNCHANGED notCtxVars

\* ------------------------------------------------------------------------
\* LocationService.__init__ and is_nz_location
\* ------------------------------------------------------------------------
\* data/nz_locations.json: absent, not JSON, a JSON list, a JSON number, an
\* object whose keys are the place names, an object with a 'locations' list
LocationFiles == {"missing", "invalid_json", "list", "number",
                  "object", "locations_object"}

\* the exception raised inside the try block of __init__, or "none"
LoadRaises(file) ==
    IF file = "missing" THEN "FileNotFoundError"
    ELSE IF file = "invalid_json" THEN "JSONDecodeError"
    ELSE IF file \in {"list", "number"} THEN "AttributeError"
    ELSE "none"

\* variant: only the errors of open and json.load are caught
LoadCaught_M(e) == e \in {"FileNotFoundError", "JSONDecodeError"}

\* __init__: except Exception
LoadCaught(e) == TRUE

\* __init__: the set built from the keys of the object
LoadedLocations(file) ==
    IF file = "object" THEN Gazetteer
    ELSE {<<"l", "o", "c", "a", "t", "i", "o", "n", "s">>}

\* the words a location text is made of
LocationTokens == {<<"A", "u", "c", "k", "l", "a", "n", "d", ",">>, <<"N", "e", "w">>, <<"Z", "e", "a", "l", "a", "n", "d">>, <<"S", "y", "d", "n", "e", "y", ",">>,
                   <<"A", "u", "s", "t", "r", "a", "l", "i", "a">>, <<"a", "u", "c", "k", "l", "a", "n", "d", "e", "r">>,
                   <<"W", "E", "L", "L", "I", "N", "G", "T", "O", "N", ".">>, <<"M", "t", ".", "W", "e", "l", "l", "i", "n", "g", "t", "o", "n">>,
                   <<",">>}
MaxTokens == 3

SvcIdle ==
    /\ svcPc = "none"
    /\ locations_file = "none"
    /\ nz_locations = {}
    /\ tokens = <<>>
    /\ location_str = <<>>
    /\ location_lower = <<>>
    /\ svcResult = FALSE

\* LocationService()
SvcConstruct ==
    /\ svcPc = "none"
    /\ \E file \in LocationFiles :
         /\ locations_file' = file
         /\ IF LoadRaises(file) = "none"
            THEN /\ nz_locations' = LoadedLocations(file)
                 /\ svcPc' = "constructed"
            ELSE IF LoadCaught(LoadRaises(file))
            THEN /\ nz_locations' = {}
                 /\ svcPc' = "constructed"
            ELSE /\ nz_locations' = nz_locations
                 /\ svcPc' = "raised"
    /\ UNCHANGED <<tokens, location_str, location_lower, svcResult>>
    /\ UNCHANGED notSvcVars

\* is_nz_location(location_str) is called
SvcCall ==
    /\ svcPc = "constructed"
    /\ \E n \in 0..MaxTokens : \E ts \in [1..n -> LocationTokens] :
         /\ tokens' = ts
         /\ location_str' = Join(ts)
    /\ svcPc' = "called"
    /\ UNCHANGED <<locations_file, nz_locations, location_lower, svcResult>>
    /\ UNCHANGED notSvcVars

\* `if not location_str: return False`, then _clean_location
SvcClean ==
    /\ svcPc = "called"
    /\ IF location_str = <<>>
       THEN /\ svcResult' = FALSE
            /\ svcPc' = "returned"
            /\ location_lower' = location_lower
       ELSE /\ location_lower' = CleanLocation(location_str)
            /\ svcPc' = "search"
            /\ svcResult' = svcResult
    /\ UNCHANGED <<locations_file, nz_locations, tokens, location_str>>
    /\ UNCHANGED notSvcVars

\* the loop over self.nz_locations
SvcSearch ==
    /\ svcPc = "search"
    /\ svcResult' = MatchesAny(nz_locations, location_lower)
    /\ svcPc' = "returned"
    /\ UNCHANGED <<locations_file, nz_locations, tokens, location_str,
                   location_lower>>
    /\ UNCHANGED notSvcVars

\* ------------------------------------------------------------------------
\* format_company_name: the lazily loaded _COMPANY_SUFFIXES
\* ------------------------------------------------------------------------
\* the request threads of the process
Threads == {"t1", "t2", "t3"}
\* calls of format_company_name a thread makes
MaxCalls == 2

\* load_company_suffixes returns the table of company_status.json, or the
\* default table when the file cannot be read
SuffixTables == {"file_table", "default_table"}

SufIdle ==
    /\ COMPANY_SUFFIXES = "None"
    /\ sufPc = [t \in Threads |-> "idle"]
    /\ sufCalls = [t \in Threads |-> 0]
    /\ sufLoaded = [t \in Threads |-> "None"]
    /\ loads = 0
    /\ assignments = <<>>

\* format_company_name(name) is called: `if not name: return ""`
SufEnter(t) ==
    /\ sufPc[t] = "idle"
    /\ sufCalls[t] < MaxCalls
    /\ sufCalls' = [sufCalls EXCEPT ![t] = @ + 1]
    /\ \E empty \in BOOLEAN :
         sufPc' = [sufPc EXCEPT ![t] = IF empty THEN "idle" ELSE "test"]
    /\ UNCHANGED <<COMPANY_SUFFIXES, sufLoaded, loads, assignments>>
    /\ UNCHANGED notSufVars

\* `if _COMPANY_SUFFIXES is None:`
SufTest(t) ==
    /\ sufPc[t] = "test"
    /\ sufPc' = [sufPc EXCEPT ![t] = IF COMPANY_SUFFIXES = "None"
                                     THEN "load" ELSE "format"]
    /\ UNCHANGED <<COMPANY_SUFFIXES, sufCalls, sufLoaded, loads, assignments>>
    /\ UNCHANGED notSufVars

\* load_company_suffixes()
SufLoad(t) ==
    /\ sufPc[t] = "load"
    /\ \E table \in SuffixTables :
         sufLoaded' = [sufLoaded EXCEPT ![t] = table]
    /\ loads' = loads + 1
    /\ sufPc' = [sufPc EXCEPT ![t] = "assign"]
    /\ UNCHANGED <<COMPANY_SUFFIXES, sufCalls, assignments>>
    /\ UNCHANGED notSufVars

\* _COMPANY_SUFFIXES = <what load_company_suffixes returned>
SufAssign(t) ==
    /\ sufPc[t] = "assign"
    /\ COMPANY_SUFFIXES' = sufLoaded[t]
    /\ assignments' = Append(assignments, sufLoaded[t])
    /\ sufPc' = [sufPc EXCEPT ![t] = "format"]
    /\ UNCHANGED <<sufCalls, sufLoaded, loads>>
    /\ UNCHANGED notSufVars

\* the rest of format_company_name, which only reads the table
SufFormat(t) ==
    /\ sufPc[t] = "format"
    /\ sufPc' = [sufPc EXCEPT ![t] = "idle"]
    /\ UNCHANGED <<COMPANY_SUFFIXES, sufCalls, sufLoaded, loads, assignments>>
    /\ UNCHANGED notSufVars

SufStep(t) ==
    \/ SufEnter(t)
    \/ SufTest(t)
    \/ SufLoad(t)
    \/ SufAssign(t)
    \/ SufFormat(t)

\* ------------------------------------------------------------------------
\* basic_logger
\* ------------------------------------------------------------------------
Levels == {"DEBUG", "INFO", "WARNING", "ERROR"}

\* should_log: level_hierarchy
LevelRank(level) ==
    IF level = "DEBUG" THEN 0
    ELSE IF level = "INFO" THEN 1
    ELSE IF level = "WARNING" THEN 2
    ELSE 3

\* should_log
should_log(level) == LevelRank(level) >= LevelRank(LOG_LEVEL)

\* should_log_to_console
should_log_to_console(level) == should_log(level)

\* ALWAYS_LOG_DEBUG_TO_FILE, which set_debug_log_mode alone changes
ALWAYS_LOG_DEBUG_TO_FILE == TRUE

\* LoggingStream.write: the text is also written to the log files, which
\* takes LOG_LOCK
StreamTakesLock ==
    /\ stdout = "logging"
    /\ CAPTURE_STDOUT
    /\ LOGGER_INITIALIZED

\* calls the program makes
MaxLogOps == 3

\* a message of the program and a message the logger writes about itself
ClientMsg(level) == [level |-> level, by |-> "client"]
LoggerMsg(level) == [level |-> level, by |-> "logger"]
\* an entry of a log file: the message and the mode it was written in
Entry(msg) == [level |-> msg.level, by |-> msg.by, production |-> PRODUCTION_MODE]
TerminalEntry == [level |-> "TERMINAL", by |-> "client",
                  production |-> PRODUCTION_MODE]

NoOp == [kind |-> "none", level |-> "", enabled |-> FALSE, main |-> 0,
         debug |-> 0, mode |-> "unset"]

LogInit ==
    /\ PRODUCTION_MODE = FALSE
    /\ LOG_LEVEL = "DEBUG"
    /\ CAPTURE_STDOUT = TRUE
    /\ LOGGER_INITIALIZED = FALSE
    /\ stdout = "original"
    /\ lockHeld = FALSE
    /\ logPc = "idle"
    /\ pending = <<>>
    /\ mainLog = <<>>
    /\ debugLog = <<>>
    /\ lastOp = NoOp
    /\ logOps = 0

\* the program is between two calls of the logger
LogIdle == logPc = "idle" /\ pending = <<>> /\ logOps < MaxLogOps

\* write_log is entered for the messages msgs, or there is none
StartWriting(msgs) ==
    /\ pending' = msgs
    /\ logPc' = IF msgs = <<>> THEN "idle" ELSE "acquire"

\* set_production_mode(enabled)
SetProductionMode ==
    /\ LogIdle
    /\ \E enabled \in BOOLEAN :
         /\ PRODUCTION_MODE' = enabled
         /\ LOG_LEVEL' = IF enabled THEN "INFO" ELSE "DEBUG"
         /\ CAPTURE_STDOUT' = ~enabled
         /\ stdout' = IF enabled THEN "original" ELSE "logging"
         /\ StartWriting(IF ~LOGGER_INITIALIZED THEN <<>>
                         ELSE IF enabled
                         THEN <<LoggerMsg("INFO"), LoggerMsg("INFO")>>
                         ELSE <<LoggerMsg("DEBUG")>>)
         /\ lastOp' = [kind |-> "mode", level |-> "", enabled |-> enabled,
                       main |-> Len(mainLog), debug |-> Len(debugLog),
                       mode |-> IF enabled THEN "production"
                                ELSE "development"]
    /\ logOps' = logOps + 1
    /\ UNCHANGED <<LOGGER_INITIALIZED, lockHeld, mainLog, debugLog>>
    /\ UNCHANGED notLogVars

\* info, debug, warning or error is called: write_log up to `with LOG_LOCK`,
\* which is initialize() on the first call; initialize enables the terminal
\* capture, which logs a DEBUG message of its own
LogMessage ==
    /\ LogIdle
    /\ \E level \in Levels :
         /\ lastOp' = [kind |-> "log", level |-> level, enabled |-> FALSE,
                       main |-> Len(mainLog), debug |-> Len(debugLog),
                       mode |-> lastOp.mode]
         /\ IF ~LOGGER_INITIALIZED /\ CAPTURE_STDOUT
            THEN /\ stdout' = "logging"
                 /\ StartWriting(<<LoggerMsg("DEBUG"), ClientMsg(level)>>)
            ELSE /\ stdout' = stdout
                 /\ StartWriting(<<ClientMsg(level)>>)
    /\ LOGGER_INITIALIZED' = TRUE
    /\ logOps' = logOps + 1
    /\ UNCHANGED <<PRODUCTION_MODE, LOG_LEVEL, CAPTURE_STDOUT, lockHeld,
                   mainLog, debugLog>>
    /\ UNCHANGED notLogVars

\* the program prints a line: sys.stdout.write
ClientPrint ==
    /\ LogIdle
    /\ lastOp' = [kind |-> "print", level |-> "", enabled |-> FALSE,
                  main |-> Len(mainLog), debug |-> Len(debugLog),
                  mode |-> lastOp.mode]
    /\ IF StreamTakesLock
       THEN /\ mainLog' = Append(mainLog, TerminalEntry)
            /\ debugLog' = IF ALWAYS_LOG_DEBUG_TO_FILE
                           THEN Append(debugLog, TerminalEntry) ELSE debugLog
       ELSE UNCHANGED <<mainLog, debugLog>>
    /\ logOps' = logOps + 1
    /\ UNCHANGED <<PRODUCTION_MODE, LOG_LEVEL, CAPTURE_STDOUT,
                   LOGGER_INITIALIZED, stdout, lockHeld, logPc, pending>>
    /\ UNCHANGED notLogVars

\* write_log: with LOG_LOCK
WlAcquire ==
    /\ logPc = "acquire"
    /\ ~lockHeld
    /\ lockHeld' = TRUE
    /\ logPc' = "write"
    /\ UNCHANGED <<PRODUCTION_MODE, LOG_LEVEL, CAPTURE_STDOUT,
                   LOGGER_INITIALIZED, stdout, pending, mainLog, debugLog,
                   lastOp, logOps>>
    /\ UNCHANGED notLogVars

\* write_log: the writes to the two files
WlWrite ==
    /\ logPc = "write"
    /\ LET msg == Head(pending) IN
       /\ debugLog' = IF msg.level = "DEBUG" /\ ALWAYS_LOG_DEBUG_TO_FILE
                      THEN Append(debugLog, Entry(msg)) ELSE debugLog
       /\ mainLog' = IF should_log(msg.level)
                     THEN Append(mainLog, Entry(msg)) ELSE mainLog
       /\ logPc' = IF should_log_to_console(msg.level) THEN "print" ELSE "release"
    /\ UNCHANGED <<PRODUCTION_MODE, LOG_LEVEL, CAPTURE_STDOUT,
                   LOGGER_INITIALIZED, stdout, lockHeld, pending, lastOp,
                   logOps>>
    /\ UNCHANGED notLogVars

\* write_log: print(...) while LOG_LOCK is held; through a LoggingStream the
\* print waits for LOG_LOCK, which is not reentrant
WlPrint ==
    /\ logPc = "print"
    /\ logPc' = IF StreamTakesLock /\ lockHeld THEN "blocked" ELSE "release"
    /\ UNCHANGED <<PRODUCTION_MODE, LOG_LEVEL, CAPTURE_STDOUT,
                   LOGGER_INITIALIZED, stdout, lockHeld, pending, mainLog,
                   debugLog, lastOp, logOps>>
    /\ UNCHANGED notLogVars

\* write_log: the end of `with LOG_LOCK` and the return
WlRelease ==
    /\ logPc = "release"
    /\ lockHeld' = FALSE
    /\ StartWriting(Tail(pending))
    /\ UNCHANGED <<PRODUCTION_MODE, LOG_LEVEL, CAPTURE_STDOUT,
                   LOGGER_INITIALIZED, stdout, mainLog, debugLog, lastOp,
                   logOps>>
    /\ UNCHANGED notLogVars

\* ------------------------------------------------------------------------
\* The total years of experience along one run: send_to_cv_parser (stage 2),
\* generate_blurb_with_claude (stage 3), enrich_experience_locations
\* (stage 4), prepare_context (stage 6)
\* ------------------------------------------------------------------------
\* `not location` of Python, for a JSON string, null or missing key
Falsy(val) == val.t # "str" \/ val.v = <<>>

\* is_nz_location of a value that may be None
IsNzValue(val) == IF val.t = "str" THEN IsNzLocation(val.v) ELSE FALSE

\* send_to_cv_parser: exp['is_nz'] of one experience
ParserFlag(exp) ==
    IF Falsy(exp.location) /\ exp.company.t # "absent"
    THEN IsNzValue(exp.company)
    ELSE IsNzValue(exp.location)

\* send_to_cv_parser: the loop that classifies every experience
ParserClassify(rec) ==
    [i \in 1..Len(rec) |->
        [rec[i] EXCEPT !.is_nz = IF ParserFlag(rec[i]) THEN "true" ELSE "false"]]

\* generate_blurb_with_claude: what one experience adds to its bucket; an
\* experience is skipped for a missing, non-integer or unparsable duration
BlurbMonths(exp) ==
    LET d == exp.duration_in_months IN
    IF d.t = "absent" THEN 0
    ELSE IF d.t = "str" THEN (IF IsIntLiteral(d.s) THEN IntOf(d.s) ELSE 0)
    ELSE IF d.t \in {"int", "bool"} THEN d.n
    ELSE 0

RECURSIVE SumMonths(_, _, _)
SumMonths(rec, MonthsOf(_), nz) ==
    IF rec = <<>> THEN 0
    ELSE (IF IsNz(Head(rec)) = nz THEN MonthsOf(Head(rec)) ELSE 0)
            + SumMonths(Tail(rec), MonthsOf, nz)

\* generate_blurb_with_claude: total_years
BlurbTotalYears(rec) ==
    round_up_years(SumMonths(rec, BlurbMonths, TRUE))
        + round_up_years(SumMonths(rec, BlurbMonths, FALSE))

\* enrich_experience_locations from job i on: the loop stops at the first job
\* that raises, and the record is returned as it is then
RECURSIVE EnrichFrom(_, _)
EnrichFrom(rec, i) ==
    IF i > Len(rec) \/ JobRaises(rec[i]) THEN rec
    ELSE EnrichFrom([rec EXCEPT ![i] = EnrichJob(@)], i + 1)

\* prepare_context: what one experience adds to its bucket
DocMonths(exp) == DurationMonths(exp.duration_in_months)

\* prepare_context: total_years
DocTotalYears(rec) ==
    YearsAggregation(SumMonths(rec, DocMonths, TRUE),
                     SumMonths(rec, DocMonths, FALSE),
                     SumMonths(rec, DocMonths, TRUE)
                        + SumMonths(rec, DocMonths, FALSE)).total_years

\* the experiences the parser API returns
YrDurations == {DurInt(6), DurInt(18), DurStr(NotANumber)}
YrExperiences == [location : LocationValues, company : CompanyValues,
                  duration_in_months : YrDurations, is_nz : {"absent"}]
YrRecords == UNION {[1..n -> YrExperiences] : n \in 0..MaxExps}

YrIdle ==
    /\ yrPc = "idle"
    /\ yrRec = <<>>
    /\ blurbYears = 0
    /\ docYears = 0

\* stage 2: the parser API answers and send_to_cv_parser classifies
YrParse ==
    /\ yrPc = "idle"
    /\ \E rec \in YrRecords : yrRec' = ParserClassify(rec)
    /\ yrPc' = "parsed"
    /\ UNCHANGED <<blurbYears, docYears>>
    /\ UNCHANGED notYrVars

\* stage 3: generate_blurb_with_claude computes the years of the prompt and
\* of the first sentence
YrBlurb ==
    /\ yrPc = "parsed"
    /\ blurbYears' = BlurbTotalYears(yrRec)
    /\ yrPc' = "blurbed"
    /\ UNCHANGED <<yrRec, docYears>>
    /\ UNCHANGED notYrVars

\* stage 4: enrich_experience_locations
YrLocate ==
    /\ yrPc = "blurbed"
    /\ yrRec' = EnrichFrom(yrRec, 1)
    /\ yrPc' = "located"
    /\ UNCHANGED <<blurbYears, docYears>>
    /\ UNCHANGED notYrVars

\* stage 6: prepare_context
YrDocGen ==
    /\ yrPc = "located"
    /\ docYears' = DocTotalYears(yrRec)
    /\ yrPc' = "done"
    /\ UNCHANGED <<yrRec, blurbYears>>
    /\ UNCHANGED notYrVars

\* ------------------------------------------------------------------------
\* The requests of the blurb stage
\* ------------------------------------------------------------------------
\* what client.messages.create does: the outcomes of ClaudeResponses, or a
\* response that is false to `if response:`
BlurbResponses == ClaudeResponses \cup {"empty"}

BlbIdle ==
    /\ blbPc = "idle"
    /\ blbOuter = 0
    /\ blbAttempt = 0
    /\ blbRaised = "none"
    /\ blbRequests = 0
    /\ blbResult = "none"

\* generate_blurb_with_claude reaches its loop and calls
\* make_claude_api_call for the first time
BlbStart ==
    /\ blbPc = "idle"
    /\ blbPc' = "request"
    /\ UNCHANGED <<blbOuter, blbAttempt, blbRaised, blbRequests, blbResult>>
    /\ UNCHANGED notBlbVars

\* generate_blurb_with_claude: the next iteration of `for attempt in
\* range(max_retries)`, or the end of the loop
BlbNextOuter(result) ==
    IF blbOuter < blurb_max_retries - 1
    THEN /\ blbOuter' = blbOuter + 1
         /\ blbAttempt' = 0
         /\ blbPc' = "request"
         /\ UNCHANGED blbResult
    ELSE /\ blbResult' = result
         /\ blbPc' = "returned"
         /\ UNCHANGED <<blbOuter, blbAttempt>>

\* one iteration of the loop of make_claude_api_call: one request
BlbRequest ==
    /\ blbPc = "request"
    /\ blbRequests' = blbRequests + 1
    /\ \E resp \in BlurbResponses :
         IF resp = "ok"
         THEN \* `if response: break`, and the blurb is saved
              /\ blbResult' = "path"
              /\ blbPc' = "returned"
              /\ UNCHANGED <<blbOuter, blbAttempt, blbRaised>>
         ELSE IF resp = "empty"
         THEN \* the response is returned and the loop goes on
              /\ BlbNextOuter("path")
              /\ UNCHANGED blbRaised
         ELSE IF ClaudeRetryable(resp, blbAttempt)
         THEN /\ blbAttempt' = blbAttempt + 1
              /\ UNCHANGED <<blbPc, blbOuter, blbRaised, blbResult>>
         ELSE \* `raise e` or `raise last_error`
              /\ blbRaised' = resp
              /\ blbPc' = "except"
              /\ UNCHANGED <<blbOuter, blbAttempt, blbResult>>
    /\ UNCHANGED notBlbVars

\* generate_blurb_with_claude: the except clauses
BlbExcept ==
    /\ blbPc = "except"
    /\ IF blbRaised = "reqexc"
       THEN BlbNextOuter("ai_error")
       ELSE /\ blbResult' = "no_path"
            /\ blbPc' = "returned"
            /\ UNCHANGED <<blbOuter, blbAttempt>>
    /\ UNCHANGED <<blbRaised, blbRequests>>
    /\ UNCHANGED notBlbVars

\* ------------------------------------------------------------------------
\* save_output_to_downloads
\* ------------------------------------------------------------------------
\* calls of save_output_to_downloads by one run
MaxSaves == 2
\* the candidate names: the original name and stem_1, stem_2, ...
DlNames == 0..(Cardinality(Runs) * MaxSaves)
NoCopy == <<"none", 0>>

DlIdle ==
    /\ downloads = [n \in DlNames |-> NoCopy]
    /\ dlPc = [r \in Runs |-> "idle"]
    /\ dest_path = [r \in Runs |-> 0]
    /\ counter = [r \in Runs |-> 1]
    /\ dlSaves = [r \in Runs |-> 0]
    /\ dlSaved = [r \in Runs |-> -1]
    /\ dlLost = {}

\* dest_path.exists()
DlExists(n) == downloads[n] # NoCopy

\* the call up to the while loop: dest_path is the name of the source
DlBegin(r) ==
    /\ dlPc[r] = "idle"
    /\ dlSaves[r] < MaxSaves
    /\ dlSaves' = [dlSaves EXCEPT ![r] = @ + 1]
    /\ dest_path' = [dest_path EXCEPT ![r] = 0]
    /\ counter' = [counter EXCEPT ![r] = 1]
    /\ dlPc' = [dlPc EXCEPT ![r] = "probe"]
    /\ UNCHANGED <<downloads, dlSaved, dlLost>>
    /\ UNCHANGED notDlVars

\* one test of `while dest_path.exists()`, and the body of the loop
DlProbe(r) ==
    /\ dlPc[r] = "probe"
    /\ IF DlExists(dest_path[r])
       THEN /\ dest_path' = [dest_path EXCEPT ![r] = counter[r]]
            /\ counter' = [counter EXCEPT ![r] = @ + 1]
            /\ UNCHANGED dlPc
       ELSE /\ dlPc' = [dlPc EXCEPT ![r] = "copy"]
            /\ UNCHANGED <<dest_path, counter>>
    /\ UNCHANGED <<downloads, dlSaves, dlSaved, dlLost>>
    /\ UNCHANGED notDlVars

\* shutil.copy2(output_path, dest_path) and the return of dest_path
DlCopy(r) ==
    /\ dlPc[r] = "copy"
    /\ downloads' = [downloads EXCEPT ![dest_path[r]] = <<r, dlSaves[r]>>]
    /\ dlLost' = IF DlExists(dest_path[r])
                 THEN dlLost \cup {downloads[dest_path[r]]} ELSE dlLost
    /\ dlSaved' = [dlSaved EXCEPT ![r] = dest_path[r]]
    /\ dlPc' = [dlPc EXCEPT ![r] = "idle"]
    /\ UNCHANGED <<dest_path, counter, dlSaves>>
    /\ UNCHANGED notDlVars

DlStep(r) ==
    \/ DlBegin(r)
    \/ DlProbe(r)
    \/ DlCopy(r)

\* ------------------------------------------------------------------------
\* cleanup_directory
\* ------------------------------------------------------------------------
\* s ends with suf
EndsWith(s, suf) ==
    /\ Len(suf) <= Len(s)
    /\ SubSeq(s, Len(s) - Len(suf) + 1, Len(s)) = suf

DocxSuffix == <<".", "d", "o", "c", "x">>
PdfSuffix == <<".", "p", "d", "f">>
CvMark == <<"_", "C", "V">>

\* file.name.endswith('.docx')
IsDocx(name) == EndsWith(name, DocxSuffix)

\* Path.stem: the name without its last suffix
Stem(name) ==
    LET dots == {i \in 2..Len(name) : name[i] = "."} IN
    IF dots = {} THEN name
    ELSE SubSeq(name, 1, (CHOOSE i \in dots : \A j \in dots : j <= i) - 1)

\* base_name.split('_CV')[0] when '_CV' is in base_name
BeforeCvMark(base) ==
    LET at == {i \in 1..(Len(base) - 2) : SubSeq(base, i, i + 2) = CvMark} IN
    IF at = {} THEN base
    ELSE SubSeq(base, 1, (CHOOSE i \in at : \A j \in at : i <= j) - 1)

\* re.sub(r'_\d+$', '', base_name)
StripCounter(base) ==
    LET at == {i \in 1..(Len(base) - 1) :
                  /\ base[i] = "_"
                  /\ \A j \in (i + 1)..Len(base) : base[j] \in Digits}
    IN IF at = {} THEN base
       ELSE SubSeq(base, 1, (CHOOSE i \in at : \A j \in at : i <= j) - 1)

\* cleanup_directory: the key of file_groups a file is put under
GroupKey(name) == StripCounter(BeforeCvMark(Stem(name)))

\* the base names of the uploads: secure_filename keeps digits and
\* underscores, so a user may upload cv.docx and cv_2.docx
UploadBases == {<<"c", "v">>, <<"c", "v", "_", "2">>}

\* generate_cv_document: the output of an upload, and the copy
\* save_output_to_downloads makes when the name is taken
OutputName(base) == base \o CvMark \o DocxSuffix
CopyName(base) == base \o CvMark \o <<"_", "1">> \o DocxSuffix

\* the files of the directory: the generated documents and one file that is
\* not a .docx
DirFiles ==
    {[name |-> OutputName(b), origin |-> b] : b \in UploadBases}
        \cup {[name |-> CopyName(b), origin |-> b] : b \in UploadBases}
        \cup {[name |-> <<"c", "v">> \o CvMark \o PdfSuffix,
               origin |-> <<"c", "v">>]}
DirNames == {f.name : f \in DirFiles}
\* the upload a file was generated from
Origin(name) == (CHOOSE f \in DirFiles : f.name = name).origin

\* writes to the directory
MaxWrites == 3

DirIdle ==
    /\ mtime = [n \in DirNames |-> 0]
    /\ clock = 0
    /\ cleaned = [before |-> [n \in DirNames |-> 0],
                  after |-> [n \in DirNames |-> 0]]

\* a document is generated or copied into the directory
DirWrite ==
    /\ clock < MaxWrites
    /\ \E n \in DirNames : mtime' = [mtime EXCEPT ![n] = clock + 1]
    /\ clock' = clock + 1
    /\ UNCHANGED cleaned
    /\ UNCHANGED notDirVars

\* cleanup_directory: the files of the group of n, and whether n is deleted:
\* it is not the most recent of a group of several files
Group(n) == {g \in DirNames : mtime[g] > 0 /\ IsDocx(g) /\ GroupKey(g) = GroupKey(n)}
Removed(n) ==
    /\ mtime[n] > 0
    /\ IsDocx(n)
    /\ \E g \in Group(n) : mtime[g] > mtime[n]

\* cleanup_directory(directory)
DirCleanup ==
    /\ mtime' = [n \in DirNames |-> IF Removed(n) THEN 0 ELSE mtime[n]]
    /\ cleaned' = [before |-> mtime, after |-> mtime']
    /\ UNCHANGED clock
    /\ UNCHANGED notDirVars

\* ------------------------------------------------------------------------
\* The temporary files of one upload request
\* ------------------------------------------------------------------------
\* what the request holds: no file part, an empty file name, a file type
\* that is not allowed, a file that cannot be saved, or a file
RequestKinds == {"no_file", "no_name", "bad_type", "save_error", "file"}
\* how process_cv_pipeline ends once the temporary copy is made
PipelineEnds == {"store_failed", "stage_failed", "exception", "success"}

TmpIdle ==
    /\ tmpPc = [r \in Runs |-> "idle"]
    /\ routeTemp = [r \in Runs |-> FALSE]
    /\ pipeTemp = [r \in Runs |-> FALSE]
    /\ tmpResponse = [r \in Runs |-> "none"]

\* upload_file_route: the `finally` clause, os.unlink(temp_file.name)
RouteFinally(r) == routeTemp' = [routeTemp EXCEPT ![r] = FALSE]

\* upload_file_route up to file.save(temp_file.name)
TmpRequest(r) ==
    /\ tmpPc[r] = "idle"
    /\ \E kind \in RequestKinds :
         IF kind = "file"
         THEN /\ routeTemp' = [routeTemp EXCEPT ![r] = TRUE]
              /\ tmpPc' = [tmpPc EXCEPT ![r] = "saved"]
              /\ UNCHANGED tmpResponse
         ELSE \* a response is returned; the temporary file, if it was
              \* created, is removed by the `finally` clause
              /\ tmpResponse' = [tmpResponse EXCEPT ![r] = kind]
              /\ RouteFinally(r)
              /\ tmpPc' = [tmpPc EXCEPT ![r] = "done"]
    /\ UNCHANGED pipeTemp
    /\ UNCHANGED notTmpVars

\* upload_file_route: the size check and the copy to the upload folder
TmpSize(r) ==
    /\ tmpPc[r] = "saved"
    /\ \E too_large \in BOOLEAN :
         IF too_large
         THEN /\ tmpResponse' = [tmpResponse EXCEPT ![r] = "too_large"]
              /\ RouteFinally(r)
              /\ tmpPc' = [tmpPc EXCEPT ![r] = "done"]
         ELSE /\ tmpPc' = [tmpPc EXCEPT ![r] = "pipeline"]
              /\ UNCHANGED <<tmpResponse, routeTemp>>
    /\ UNCHANGED pipeTemp
    /\ UNCHANGED notTmpVars

\* process_cv_pipeline, stage 1: NamedTemporaryFile(delete=False,
\* suffix=".docx") and the copy of the upload into it
TmpPipelineCopy(r) ==
    /\ tmpPc[r] = "pipeline"
    /\ pipeTemp' = [pipeTemp EXCEPT ![r] = TRUE]
    /\ tmpPc' = [tmpPc EXCEPT ![r] = "stages"]
    /\ UNCHANGED <<routeTemp, tmpResponse>>
    /\ UNCHANGED notTmpVars

\* process_cv_pipeline from retry_firebase_upload to its return
TmpPipelineReturn(r) ==
    /\ tmpPc[r] = "stages"
    /\ \E end \in PipelineEnds :
         tmpResponse' = [tmpResponse EXCEPT ![r] = end]
    /\ tmpPc' = [tmpPc EXCEPT ![r] = "finally"]
    /\ UNCHANGED <<routeTemp, pipeTemp>>
    /\ UNCHANGED notTmpVars

\* upload_file_route: return jsonify(response), through `finally`
TmpRespond(r) ==
    /\ tmpPc[r] = "finally"
    /\ RouteFinally(r)
    /\ tmpPc' = [tmpPc EXCEPT ![r] = "done"]
    /\ UNCHANGED <<pipeTemp, tmpResponse>>
    /\ UNCHANGED notTmpVars

TmpStep(r) ==
    \/ TmpRequest(r)
    \/ TmpSize(r)
    \/ TmpPipelineCopy(r)
    \/ TmpPipelineReturn(r)
    \/ TmpRespond(r)

\* ------------------------------------------------------------------------
\* FeedbackManager
\* ------------------------------------------------------------------------
\* FeedbackManager._max_messages
max_messages == 100

\* FeedbackType.value
FeedbackTypes == {"info", "success", "warning", "error", "progress"}
\* ProcessingStatus.STAGES, of which the model follows two
FbStages == {"upload", "parse"}
\* the stage and status arguments of update_progress
StageArgs == FbStages \cup {"unknown"}
StatusArgs == {"start", "complete", "error", "other"}

\* calls followed when all kinds of call and argument are made
MaxFbCalls == 4
\* calls followed when the messages are INFO messages
MaxMsgCalls == 103

\* variant: the oldest messages are kept
Truncate_M(msgs) ==
    IF Len(msgs) > max_messages THEN SubSeq(msgs, 1, max_messages) ELSE msgs

\* add_message: self.messages = self.messages[-self._max_messages:]
Truncate(msgs) ==
    IF Len(msgs) > max_messages
    THEN SubSeq(msgs, Len(msgs) - max_messages + 1, Len(msgs))
    ELSE msgs

\* add_message: self.messages after the call
AddMessage(msgs, type) ==
    Truncate(Append(msgs, [id |-> added + 1, type |-> type]))

\* variant: all the messages are returned
LastTen_M(msgs) == msgs

\* get_status: self.messages[-10:]
LastTen(msgs) ==
    IF Len(msgs) > 10 THEN SubSeq(msgs, Len(msgs) - 9, Len(msgs)) ELSE msgs

\* get_progress: completed_stages, and the stages that failed
CompletedStages == {s \in FbStages : stage_progress[s] = "completed"}
FailedStages == {s \in FbStages : stage_progress[s] = "failed"}

\* get_status
GetStatus ==
    [progress |-> [completed_stages |-> Cardinality(CompletedStages),
                   stage_details |-> stage_progress],
     messages |-> LastTen(messages),
     has_error |-> \E i \in 1..Len(messages) : messages[i].type = "error"]

NoFbRun == [started |-> FALSE, stages |-> {}, error |-> FALSE]

FbIdle ==
    /\ messages = <<>>
    /\ added = 0
    /\ stage_progress = [s \in FbStages |-> "none"]
    /\ current_stage = "none"
    /\ fbRun = NoFbRun

\* a call add_message(message, msg_type) by the program
FbAddMessage(types, limit) ==
    /\ added < limit
    /\ \E type \in types :
         /\ messages' = AddMessage(messages, type)
         /\ fbRun' = [fbRun EXCEPT !.error = @ \/ type = "error"]
    /\ added' = added + 1
    /\ UNCHANGED <<stage_progress, current_stage>>
    /\ UNCHANGED notFbVars

\* start_processing(filename): a new ProcessingStatus and an INFO message
FbStartProcessing(limit) ==
    /\ added < limit
    /\ stage_progress' = [s \in FbStages |-> "none"]
    /\ current_stage' = "none"
    /\ messages' = AddMessage(messages, "info")
    /\ added' = added + 1
    /\ fbRun' = [started |-> TRUE, stages |-> {}, error |-> FALSE]
    /\ UNCHANGED notFbVars

\* update_progress(stage, status, message)
FbUpdateProgress(statuses, limit) ==
    /\ added < limit
    /\ \E stg \in StageArgs, status \in statuses :
         IF stg \in FbStages /\ status = "start"
         THEN \* start_stage
              /\ stage_progress' = [stage_progress EXCEPT ![stg] = "in_progress"]
              /\ current_stage' = stg
              /\ messages' = AddMessage(messages, "info")
              /\ added' = added + 1
              /\ fbRun' = [fbRun EXCEPT !.stages = @ \cup {stg}]
         ELSE IF stg \in FbStages /\ status \in {"complete", "error"}
         THEN \* complete_stage, for a stage that was started
              /\ stage_progress' =
                    IF stage_progress[stg] = "none" THEN stage_progress
                    ELSE [stage_progress EXCEPT ![stg] =
                            IF status = "complete" THEN "completed" ELSE "failed"]
              /\ messages' = AddMessage(messages,
                                IF status = "complete" THEN "success" ELSE "error")
              /\ added' = added + 1
              /\ fbRun' = [fbRun EXCEPT !.error = @ \/ status = "error"]
              /\ UNCHANGED current_stage
         ELSE UNCHANGED fbVars
    /\ UNCHANGED notFbVars

Init ==
    /\ PipeInit /\ LocIdle /\ CtxIdle /\ SvcIdle /\ SufIdle /\ LogInit
    /\ FmtIdle /\ YrIdle /\ BlbIdle /\ DlIdle /\ DirIdle
    /\ TmpIdle /\ FbIdle

\* one upload handled at a time
Next == RunStep("r1")

Spec == Init /\ [][Next]_vars

\* uploads handled concurrently
NextConc == \E r \in Runs : RunStep(r)

SpecConc == Init /\ [][NextConc]_vars

\* one call of enrich_experience_locations
NextLoc == LocCall \/ LocJob \/ LocReturn

SpecLoc == Init /\ [][NextLoc]_vars

\* one call of prepare_context
NextCtx == CtxCall \/ CtxExp \/ CtxFinish

SpecCtx == Init /\ [][NextCtx]_vars

\* one LocationService and one call of is_nz_location
NextSvc == SvcConstruct \/ SvcCall \/ SvcClean \/ SvcSearch

SpecSvc == Init /\ [][NextSvc]_vars

\* the threads of one process calling format_company_name
NextSuf == \E t \in Threads : SufStep(t)

SpecSuf == Init /\ [][NextSuf]_vars

\* a program using basic_logger
NextLog ==
    \/ SetProductionMode
    \/ LogMessage
    \/ ClientPrint
    \/ WlAcquire
    \/ WlWrite
    \/ WlPrint
    \/ WlRelease

SpecLog == Init /\ [][NextLog]_vars

\* doc_generator is imported and format_company_name is called
NextFmt == FmtImport \/ FmtCall

SpecFmt == Init /\ [][NextFmt]_vars

\* the stages of one run that set and read the is_nz flags
NextYr == YrParse \/ YrBlurb \/ YrLocate \/ YrDocGen

SpecYr == Init /\ [][NextYr]_vars

\* one blurb stage
NextBlb == BlbStart \/ BlbRequest \/ BlbExcept

SpecBlb == Init /\ [][NextBlb]_vars

\* the runs save their outputs to Downloads, each in its own thread
NextDl == \E r \in Runs : DlStep(r)

SpecDl == Init /\ [][NextDl]_vars

\* documents are written to a directory that is cleaned from time to time
NextDir == DirWrite \/ DirCleanup

SpecDir == Init /\ [][NextDir]_vars

\* the upload requests and their temporary files
NextTmp == \E r \in Runs : TmpStep(r)

SpecTmp == Init /\ [][NextTmp]_vars

\* a program that calls the feedback manager in every way
NextFb ==
    \/ FbAddMessage(FeedbackTypes, MaxFbCalls)
    \/ FbStartProcessing(MaxFbCalls)
    \/ FbUpdateProgress(StatusArgs, MaxFbCalls)

SpecFb == Init /\ [][NextFb]_vars

\* a program whose calls add INFO messages, followed past max_messages
NextMsg ==
    \/ FbAddMessage({"info"}, MaxMsgCalls)
    \/ FbStartProcessing(MaxMsgCalls)
    \/ FbUpdateProgress({"start"}, MaxMsgCalls)

SpecMsg == Init /\ [][NextMsg]_vars

\* ------------------------------------------------------------------------
\* Properties
\* ------------------------------------------------------------------------
\* the stage a position of process_cv_pipeline belongs to
StageAt(p) ==
    IF p = "store" THEN "store"
    ELSE IF p \in {"parse_download", "parser_request"} THEN "parse"
    ELSE IF p \in {"blurb_load", "claude_request", "blurb_except"} THEN "blurb"
    ELSE IF p = "locate" THEN "location"
    ELSE IF p = "persist" THEN "persist"
    ELSE "document"

\* the outcomes the run returns for a failure of stage s
StageFailureOutcomes(s) ==
    IF s = "store" THEN {StorageOutcome, ErrorOutcome("error:copy_failed")}
    ELSE IF s = "parse" THEN {PdfOutcome, ErrorOutcome("error:no_parser_path")}
    ELSE IF s = "blurb" THEN {AiOutcome, ErrorOutcome("error:blurb_failed")}
    ELSE IF s = "location" THEN {ErrorOutcome("error:location_io")}
    ELSE IF s = "persist" THEN {ErrorOutcome("error:persist_io")}
    ELSE {ErrorOutcome("error:document")}

NStages == Len(StageOrder)

\* C1: the stages of a run start in the order store, parse, blurb, location,
\* persist, document; a stage has started only if every earlier stage
\* succeeded; once a stage has failed the run is over, no later stage has
\* started, and the run returned an outcome of the failed stage.
C1_StagesInOrder ==
    \A r \in Runs :
        /\ pc[r] \notin {"idle", "pipeline", "done"}
              => stage[r][StageAt(pc[r])] = "in_progress"
        /\ \A i \in 1..NStages :
              stage[r][StageOrder[i]] # "pending"
                 => \A j \in 1..(i - 1) : stage[r][StageOrder[j]] = "succeeded"
        /\ \A i \in 1..NStages :
              stage[r][StageOrder[i]] = "failed"
                 => /\ pc[r] = "done"
                    /\ \A j \in (i + 1)..NStages :
                          stage[r][StageOrder[j]] = "pending"
                    /\ outcome[r] \in StageFailureOutcomes(StageOrder[i])

\* a run whose blurb stage failed after store and parse had succeeded
C1_Witness ==
    \E r \in Runs :
        /\ pc[r] = "done"
        /\ stage[r]["store"] = "succeeded"
        /\ stage[r]["parse"] = "succeeded"
        /\ stage[r]["blurb"] = "failed"
        /\ stage[r]["location"] = "pending"

\* C2: a run always ends by returning a dict: a failure has success False,
\* a message and a status "warning" or "error"; success True is returned
\* only when every stage succeeded and the document was written.
C2_OutcomeShape ==
    \A r \in Runs :
        /\ outcome[r].returned <=> pc[r] = "done"
        /\ outcome[r].returned
              => /\ outcome[r].success \in {"true", "false"}
                 /\ outcome[r].success = "false"
                       => /\ outcome[r].message # ""
                          /\ outcome[r].status \in {"warning", "error"}
                 /\ outcome[r].success = "true"
                       => /\ \A s \in StageNames : stage[r][s] = "succeeded"
                          /\ docFrom[r] # NoRun
                 /\ (\E s \in StageNames : stage[r][s] = "failed")
                       => outcome[r].success = "false"

\* a run that ended because generate_blurb_with_claude returned no path
C2_Witness ==
    \E r \in Runs :
        /\ pc[r] = "done"
        /\ stage[r]["blurb"] = "failed"
        /\ outcome[r] = ErrorOutcome("error:blurb_failed")

\* C3: once a parsing request has timed out, on whatever attempt, that
\* request was the last one of make_parser_api_call, no sleep followed it,
\* and the run has ended with success False, status "warning",
\* retry_as_pdf True.
C3_TimeoutNotRetried ==
    \A r \in Runs :
        (helper[r] = "parser" /\ lastResp[r] = "timeout")
           => /\ pc[r] = "done"
              /\ calls[r] = attempt[r] + 1
              /\ Len(sleeps[r]) = attempt[r]
              /\ outcome[r].returned
              /\ outcome[r].success = "false"
              /\ outcome[r].status = "warning"
              /\ outcome[r].retry_as_pdf

\* a timeout on the third request, after two retried 5xx answers
C3_Witness ==
    \E r \in Runs :
        /\ helper[r] = "parser"
        /\ lastResp[r] = "timeout"
        /\ calls[r] = 3
        /\ pc[r] = "done"

\* the sleeps of an exponential backoff with base 1: 1, 2, 4, 8
Backoff(n) == [i \in 1..n |-> 2 ^ (i - 1)]

C5_OtherStatusIsTerminal ==
    \A r \in Runs :
        (helper[r] = "parser" /\ lastResp[r] = "4xx")
           => /\ pc[r] = "done"
              /\ calls[r] = attempt[r] + 1
              /\ outcome[r] # PdfOutcome
              /\ ~outcome[r].retry_as_pdf

\* C6: retry_firebase_upload calls the upload at most 3 times; a path ends
\* the call at once; an exception and an empty result both count as a failed
\* attempt; it sleeps 5 seconds after the first failure, 6 after the second
\* and not after the third, after which the run ends with the
\* storage-unavailable outcome and parsing has not started.
C6_UploadRetry ==
    \A r \in Runs :
        helper[r] = "upload"
           => /\ calls[r] <= 3
              /\ Len(sleeps[r]) = attempt[r]
              /\ sleeps[r] = SubSeq(<<5, 6>>, 1, Len(sleeps[r]))
              /\ lastResp[r] = "path"
                    => /\ pc[r] # "store"
                       /\ calls[r] = Len(sleeps[r]) + 1
                       /\ stage[r]["store"] = "succeeded"
              /\ (lastResp[r] \in {"empty", "exception"} /\ calls[r] < 3)
                    => /\ pc[r] = "store"
                       /\ Len(sleeps[r]) = calls[r]
              /\ (lastResp[r] \in {"empty", "exception"} /\ calls[r] = 3)
                    => /\ pc[r] = "done"
                       /\ sleeps[r] = <<5, 6>>
                       /\ outcome[r] = StorageOutcome
                       /\ stage[r]["parse"] = "pending"

\* an empty result and then two exceptions
C6_Witness ==
    \E r \in Runs :
        /\ helper[r] = "upload"
        /\ calls[r] = 3
        /\ lastResp[r] = "exception"
        /\ sleeps[r] = <<5, 6>>
        /\ outcome[r] = StorageOutcome

\* C7: make_claude_api_call calls the API at most 5 times; an overloaded
\* error (status 529) on call k+1 (k = 0..3) is followed by a sleep of 2^k
\* seconds and another call; on the fifth call it is raised without a
\* sleep; an error of any other kind is raised at once, with no sleep and no
\* further call.
C7_ClaudeBackoff ==
    \A r \in Runs :
        helper[r] = "claude"
           => /\ calls[r] <= 5
              /\ Len(sleeps[r]) = attempt[r]
              /\ sleeps[r] = Backoff(Len(sleeps[r]))
              /\ Len(sleeps[r]) <= 4
              /\ (lastResp[r] = "overloaded" /\ calls[r] < 5)
                    => /\ pc[r] = "claude_request"
                       /\ Len(sleeps[r]) = calls[r]
              /\ (lastResp[r] = "overloaded" /\ calls[r] = 5)
                    => /\ pc[r] # "claude_request"
                       /\ raised[r] = "overloaded"
                       /\ sleeps[r] = <<1, 2, 4, 8>>
              /\ lastResp[r] \in {"other", "reqexc"}
                    => /\ pc[r] # "claude_request"
                       /\ raised[r] = lastResp[r]
                       /\ calls[r] = Len(sleeps[r]) + 1

\* the API is overloaded on all five calls
C7_Witness ==
    \E r \in Runs :
        /\ helper[r] = "claude"
        /\ calls[r] = 5
        /\ raised[r] = "overloaded"
        /\ sleeps[r] = <<1, 2, 4, 8>>

\* C8: when the text-generation API stayed overloaded through all attempts
\* of the blurb stage, the run returns the recoverable "AI is having
\* problems" outcome and not the generic "Error processing CV" outcome.
C8_OverloadIsRecoverable ==
    \A r \in Runs :
        (pc[r] = "done" /\ stage[r]["blurb"] = "failed"
                        /\ raised[r] = "overloaded" /\ calls[r] = 5)
           => /\ outcome[r] = AiOutcome
              /\ outcome[r] # ErrorOutcome("error:blurb_failed")

\* both runs have started and neither has returned
InFlight == \A r \in Runs : pc[r] \notin {"idle", "done"}

\* C9: while two runs execute concurrently no intermediate file has been
\* written by both of them, and a run renders its document from the record
\* of its own upload.
C9_NoSharedIntermediateFile ==
    /\ InFlight => \A p \in IntermediatePaths : Cardinality(writers[p]) <= 1
    /\ \A r \in Runs : docFrom[r] \in {NoRun, r}

\* C10: when enrich_experience_locations has met malformed input it returns
\* the record as it was passed in: no is_nz flag was added or changed.
C10_FailOpenUnmodified ==
    (locPc = "returned" /\ locRaised) => locResult = locInput

\* the enriched JSON of run r: the file stage 5 writes and stage 6 reads
EnrichedOf(r) == EnrichedPath(fname[r])

\* C11: a step in which document generation fails leaves the enriched JSON
\* that stage 5 persisted for the run exactly as it was before stage 6
\* started: the same record, and no field added to it.
C11_EnrichedJsonKept ==
    [][\A r \in Runs :
          (pc[r] = "docgen" /\ pc'[r] = "done"
                            /\ stage'[r]["document"] = "failed")
             => /\ files'[EnrichedOf(r)] = files[EnrichedOf(r)]
                /\ (EnrichedOf(r) \in totalYearsIn')
                      = (EnrichedOf(r) \in totalYearsIn)]_vars

\* C13: once a run has built its context (its document was rendered from
\* it), the enriched JSON of the run on disk holds in basics the total years
\* that prepare_context computed.
C13_TotalYearsPersisted ==
    \A r \in Runs :
        docFrom[r] # NoRun => EnrichedOf(r) \in totalYearsIn

\* the experiences prepare_context was called with
InputExps == ctxInput.professional_experiences

\* the months that the processed experiences with (home = TRUE) or without
\* a true is_nz flag contributed
RECURSIVE BucketMonths(_, _)
BucketMonths(n, home) ==
    IF n = 0 THEN 0
    ELSE BucketMonths(n - 1, home)
            + (IF (InputExps[n].is_nz = "true") = home THEN months[n] ELSE 0)

\* C12: with non-negative home and foreign month sums, prepare_context
\* yields home years = (home months + 11) \div 12, foreign years = (foreign
\* months + 11) \div 12 and total = home years + foreign years, so the total
\* is not below either figure; an experience without is_nz counts as
\* foreign; 6 + 6 months give a total of 2 and 6 + 18 months a total of 3.
C12_YearsAggregation ==
    ctxPc = "returned" =>
        LET home == BucketMonths(Len(InputExps), TRUE)
            foreign == BucketMonths(Len(InputExps), FALSE)
            home_years == context.nzyears.years
            foreign_years == context.internationalyears.years
            total == cv_data.total_experience_in_years
        IN /\ nz_months = home
           /\ international_months = foreign
           /\ (home >= 0 /\ foreign >= 0)
                 => /\ home_years = (home + 11) \div 12
                    /\ foreign_years = (foreign + 11) \div 12
                    /\ total = home_years + foreign_years
                    /\ total >= home_years /\ total >= foreign_years
           /\ (home = 6 /\ foreign = 6) => total = 2
           /\ (home = 6 /\ foreign = 18) => total = 3

\* 6 home months and 6 foreign months, the foreign ones of an experience
\* without is_nz
C12_Witness ==
    /\ ctxPc = "returned"
    /\ nz_months = 6
    /\ international_months = 6
    /\ cv_data.total_experience_in_years = 2
    /\ \E i \in 1..Len(InputExps) :
          InputExps[i].is_nz = "absent" /\ months[i] = 6

\* C15: an experience whose duration_in_months is absent, a non-numeric
\* string or neither an int nor a string contributes 0 months, a numeric
\* string contributes its integer value, and the duration of no experience
\* makes prepare_context raise: the loop reaches its end.
C15_DurationCoercion ==
    /\ ctxRaised \notin {"ValueError", "TypeError"}
    /\ ctxPc \in {"returned", "raised"} => Len(months) = Len(InputExps)
    /\ \A i \in 1..Len(months) :
          LET d == InputExps[i].duration_in_months IN
          /\ d.t \in {"absent", "float"} => months[i] = 0
          /\ d = DurStr(NotANumber) => months[i] = 0
          /\ d = DurStr(Twelve) => months[i] = 12
          /\ d = DurInt(6) => months[i] = 6

\* a call that returned for a record with a non-numeric string and a float
C15_Witness ==
    /\ ctxPc = "returned"
    /\ Len(InputExps) = 2
    /\ InputExps[1].duration_in_months = DurStr(NotANumber)
    /\ InputExps[2].duration_in_months = DurFloat
    /\ months = <<0, 0>>

\* C20: prepare_context changes nothing of the record but the total years of
\* basics: every experience keeps its company, title, location, duration and
\* is_nz; the formatted names are in the returned context only.
C20_RawRecordKept ==
    ctxPc # "idle" =>
        /\ cv_data.professional_experiences = InputExps
        /\ \A i \in 1..Len(InputExps) :
              InputExps[i].company = Str(AcmeLtd)
                 => /\ cv_data.professional_experiences[i].company = Str(AcmeLtd)
                    /\ ctxPc = "returned"
                          => <<"A", "c", "m", "e", " ", "L", "t", "d">>
                                \in (context.nzemployers.lines
                                       \cup context.internationalemployers.lines)

\* a call that returned a context with a formatted employer and has set the
\* total years of the record
C20_Witness ==
    /\ ctxPc = "returned"
    /\ <<"A", "c", "m", "e", " ", "L", "t", "d">> \in context.nzemployers.lines
    /\ <<"S", "i", "t", "e", " ", "F", "o", "r", "e", "m", "a", "n">>
          \in context.nzpositions.lines
    /\ cv_data.total_experience_in_years # ParserTotal
    /\ cv_data.professional_experiences = InputExps

\* C14: when enrich_experience_locations has completed normally, every
\* experience has an is_nz flag; the flag is the classification of the
\* location when the location is not blank ("Auckland, NZ" is home, "Sydney"
\* is not) and of the company name when the location is blank or absent
\* ("wellington co" is home); is_nz_location was called once per experience.
C14_FlagOnEveryExperience ==
    (locPc = "returned" /\ ~locRaised) =>
        /\ Len(locResult) = Len(locInput)
        /\ Len(locClassified) = Len(locInput)
        /\ \A i \in 1..Len(locInput) :
              LET job == locInput[i] IN
              /\ locResult[i].is_nz \in {"true", "false"}
              /\ job.location = Str(AucklandNZ) => locResult[i].is_nz = "true"
              /\ job.location = Str(Sydney) => locResult[i].is_nz = "false"
              /\ (job.location \in {Str(BlankText), Absent}
                     /\ job.company = Str(WellingtonCo))
                    => locResult[i].is_nz = "true"

\* a record with a blank location, classified by the company name, and a
\* foreign location
C14_Witness ==
    /\ locPc = "returned"
    /\ ~locRaised
    /\ Len(locInput) = 2
    /\ locInput[1].location = Str(BlankText)
    /\ locInput[1].is_nz = "absent"
    /\ locResult[1].is_nz = "true"
    /\ locInput[2].location = Str(Sydney)
    /\ locResult[2].is_nz = "false"

\* the tokens in which a gazetteer entry stands as a whole word once commas
\* and periods are blanks and the case is lowered
HomeTokens == {<<"A", "u", "c", "k", "l", "a", "n", "d", ",">>, <<"W", "E", "L", "L", "I", "N", "G", "T", "O", "N", ".">>, <<"M", "t", ".", "W", "e", "l", "l", "i", "n", "g", "t", "o", "n">>}

\* C16: with the gazetteer {auckland, wellington}, is_nz_location(s) is true
\* exactly when an entry occurs as a whole word of s after lowercasing,
\* replacing commas and periods by spaces and trimming: "aucklander" does
\* not match, the empty string gives False, "Auckland, New Zealand" is home
\* and "Sydney, Australia" is foreign.
C16_WholeWordMatch ==
    (svcPc = "returned" /\ locations_file = "object") =>
        /\ svcResult = (\E i \in 1..Len(tokens) : tokens[i] \in HomeTokens)
        /\ location_str = <<>> => ~svcResult
        /\ location_str = <<"A", "u", "c", "k", "l", "a", "n", "d", ",", " ", "N", "e", "w", " ", "Z", "e", "a", "l", "a", "n", "d">> => svcResult
        /\ location_str = <<"S", "y", "d", "n", "e", "y", ",", " ", "A", "u", "s", "t", "r", "a", "l", "i", "a">> => ~svcResult
        /\ location_str = <<"a", "u", "c", "k", "l", "a", "n", "d", "e", "r">> => ~svcResult

\* "aucklander, Sydney," has no entry as a whole word
C16_Witness ==
    /\ svcPc = "returned"
    /\ locations_file = "object"
    /\ location_str = <<"a", "u", "c", "k", "l", "a", "n", "d", "e", "r", " ", "S", "y", "d", "n", "e", "y", ",">>
    /\ ~svcResult

\* C17: when the gazetteer file is missing, is not JSON or is not an object,
\* constructing the LocationService raises nothing, the gazetteer is empty
\* and is_nz_location returns False for every input.
C17_LoadFailureFailsOpen ==
    locations_file \in {"missing", "invalid_json", "list", "number"} =>
        /\ svcPc # "raised"
        /\ nz_locations = {}
        /\ svcPc = "returned" => ~svcResult

\* "Auckland, New Zealand" asked of a service whose file held a JSON list
C17_Witness ==
    /\ locations_file = "list"
    /\ svcPc = "returned"
    /\ location_str = <<"A", "u", "c", "k", "l", "a", "n", "d", ",", " ", "N", "e", "w", " ", "Z", "e", "a", "l", "a", "n", "d">>
    /\ ~svcResult

\* C18: whatever the interleaving of the calls of format_company_name,
\* load_company_suffixes is executed at most once and the cached table is
\* assigned at most once: it is never changed after it was first set.
C18_SuffixesLoadedOnce ==
    /\ loads <= 1
    /\ Len(assignments) <= 1

\* ------------------------------------------------------------------------
\* C19: production-mode logging
\* ------------------------------------------------------------------------
\* the call made last has ended: it returned, or it waits for ever
LastCallEnded == logPc \in {"idle", "blocked"}

\* the entries the last call appended to a log
AppendedTo(log, before) == {log[i] : i \in (before + 1)..Len(log)}

\* C19: after set_production_mode(True) the level is INFO and the terminal
\* capture is off, a DEBUG message goes to the debug log and not to the main
\* log, and an INFO, WARNING or ERROR message goes to the main log; after
\* set_production_mode(False) the call returns with the level DEBUG and the
\* terminal capture on, and a DEBUG message of the program is appended to the
\* main log again.
C19_ProductionMode ==
    /\ (lastOp.kind = "mode" /\ lastOp.enabled /\ LastCallEnded) =>
         /\ logPc = "idle"
         /\ LOG_LEVEL = "INFO"
         /\ ~CAPTURE_STDOUT
         /\ stdout = "original"
    /\ (lastOp.kind = "log" /\ lastOp.mode = "production" /\ LastCallEnded) =>
         /\ logPc = "idle"
         /\ IF lastOp.level = "DEBUG"
            THEN /\ Len(mainLog) = lastOp.main
                 /\ ClientMsg("DEBUG") \in
                      {[level |-> e.level, by |-> e.by] :
                         e \in AppendedTo(debugLog, lastOp.debug)}
            ELSE ClientMsg(lastOp.level) \in
                      {[level |-> e.level, by |-> e.by] :
                         e \in AppendedTo(mainLog, lastOp.main)}
    /\ (lastOp.kind = "print" /\ lastOp.mode = "production") =>
         Len(mainLog) = lastOp.main
    /\ (lastOp.kind = "mode" /\ ~lastOp.enabled /\ LastCallEnded) =>
         /\ logPc = "idle"
         /\ LOG_LEVEL = "DEBUG"
         /\ CAPTURE_STDOUT
         /\ stdout = "logging"
    /\ (lastOp.kind = "log" /\ lastOp.level = "DEBUG"
          /\ lastOp.mode = "development" /\ LastCallEnded) =>
         /\ logPc = "idle"
         /\ ClientMsg("DEBUG") \in
              {[level |-> e.level, by |-> e.by] :
                 e \in AppendedTo(mainLog, lastOp.main)}

\* ------------------------------------------------------------------------
\* C21, C22: format_company_name
\* ------------------------------------------------------------------------
\* a token without the parentheses around it
RECURSIVE Bare(_)
Bare(w) ==
    IF w # <<>> /\ Head(w) = "(" THEN Bare(Tail(w))
    ELSE IF w # <<>> /\ w[Len(w)] = ")" THEN Bare(SubSeq(w, 1, Len(w) - 1))
    ELSE w

\* token i of words is the first token of the string or directly follows an
\* opening parenthesis
FirstToken(words, i) ==
    \/ i = 1
    \/ Head(words[i]) = "("
    \/ words[i - 1][Len(words[i - 1])] = "("

\* C21: in the output of format_company_name every linking word (and, of,
\* the, in, ...) is in lower case, unless it is the first token of the string
\* or of a parenthesised sub-string.
C21_LinkingWordsLowercase ==
    fmtPc = "returned" =>
        LET words == Split(fmtOutput) IN
        \A i \in 1..Len(words) :
            (~FirstToken(words, i) /\ Lower(Bare(words[i])) \in common_words)
                => Bare(words[i]) = Lower(Bare(words[i]))

\* the positions of the character c in s
Positions(s, c) == {i \in 1..Len(s) : s[i] = c}

\* s holds one parenthesised group, and its parentheses are balanced
OneGroup(s) ==
    /\ Cardinality(Positions(s, "(")) = 1
    /\ Cardinality(Positions(s, ")")) = 1
    /\ \E i \in Positions(s, "(") : \E j \in Positions(s, ")") : i < j

\* the text between the parentheses of s
Inner(s) ==
    LET i == CHOOSE i \in Positions(s, "(") : TRUE
        j == CHOOSE j \in Positions(s, ")") : TRUE
    IN SubSeq(s, i + 1, j - 1)

\* C22: for a name with a balanced parenthesised group, the tokens inside the
\* parentheses are formatted by the rules of the tokens outside (the first
\* inner token is capitalised), and the output has no space directly after
\* "(" and none directly before ")".
C22_ParenthesesFormatted ==
    (fmtPc = "returned" /\ OneGroup(fmtInput)) =>
        /\ OneGroup(fmtOutput)
        /\ Inner(fmtOutput) = FormatPart(Inner(fmtInput))
        /\ \A i \in 1..(Len(fmtOutput) - 1) :
              /\ ~(fmtOutput[i] = "(" /\ fmtOutput[i + 1] = " ")
              /\ ~(fmtOutput[i] = " " /\ fmtOutput[i + 1] = ")")

\* ------------------------------------------------------------------------
\* C23: write_log and LOG_LOCK
\* ------------------------------------------------------------------------
\* C23: every call of info, debug, warning or error returns: the thread in
\* write_log never waits for LOG_LOCK while it holds LOG_LOCK itself, in
\* production mode and in development mode with the terminal capture on.
C23_WriteLogReturns ==
    lastOp.kind = "log" => ~(logPc = "blocked" /\ lockHeld)

\* ------------------------------------------------------------------------
\* C24: the years of the blurb and of the document
\* ------------------------------------------------------------------------
\* C24: within one run the total years of experience the blurb stage uses
\* equals the total years computed at document generation for the same
\* record.
C24_SameTotalYears ==
    yrPc = "done" => blurbYears = docYears

\* ------------------------------------------------------------------------
\* C25: the requests of the blurb stage
\* ------------------------------------------------------------------------
\* C25: in one run the blurb stage sends at most 5 requests to the
\* text-generation API, whatever the answers are.
C25_AtMostFiveRequests ==
    blbRequests <= 5

\* ------------------------------------------------------------------------
\* C26: save_output_to_downloads
\* ------------------------------------------------------------------------
\* C26: save_output_to_downloads never overwrites a file of the Downloads
\* folder, and two runs that save an output of one name end with two
\* distinct files, also when they save concurrently.
C26_NeverOverwrites ==
    /\ dlLost = {}
    /\ \A r1, r2 \in Runs :
          (r1 # r2 /\ dlPc[r1] = "idle" /\ dlPc[r2] = "idle"
             /\ dlSaved[r1] # -1 /\ dlSaved[r2] # -1)
            => dlSaved[r1] # dlSaved[r2]

\* ------------------------------------------------------------------------
\* C27: cleanup_directory
\* ------------------------------------------------------------------------
\* the files the last cleanup deleted
Deleted == {n \in DirNames : cleaned.before[n] > 0 /\ cleaned.after[n] = 0}

\* C27: cleanup_directory deletes a .docx file only if a more recently
\* modified .docx generated from the same uploaded base filename remains in
\* the directory; a file that is not a .docx is never deleted.
C27_DeletesOnlyOlderDuplicates ==
    \A n \in Deleted :
        /\ IsDocx(n)
        /\ \E g \in DirNames :
              /\ cleaned.after[g] > 0
              /\ IsDocx(g)
              /\ Origin(g) = Origin(n)
              /\ cleaned.before[g] > cleaned.before[n]

\* ------------------------------------------------------------------------
\* C28: temporary files
\* ------------------------------------------------------------------------
\* C28: when a request has returned its response, the temporary file of
\* upload_file_route and the temporary .docx of process_cv_pipeline are
\* deleted, on success and on every failure path.
C28_TempFilesDeleted ==
    \A r \in Runs :
        tmpPc[r] = "done" => (~routeTemp[r] /\ ~pipeTemp[r])

\* ------------------------------------------------------------------------
\* C29, C30: FeedbackManager
\* ------------------------------------------------------------------------
\* C29: FeedbackManager.messages holds at most 100 entries, which are the
\* most recently added ones in insertion order, and get_status returns at
\* most the last 10 of them.
C29_MessagesBounded ==
    /\ Len(messages) <= 100
    /\ Len(messages) = IF added <= 100 THEN added ELSE 100
    /\ \A i \in 1..Len(messages) :
          messages[i].id = added - Len(messages) + i
    /\ Len(GetStatus.messages) <= 10
    /\ \A i \in 1..Len(GetStatus.messages) :
          GetStatus.messages[i].id = added - Len(GetStatus.messages) + i

\* more than 100 messages were added
C29_Witness ==
    /\ added > 100
    /\ Len(messages) = 100
    /\ Len(GetStatus.messages) = 10

\* C30: after start_processing begins a run, get_status reports no completed
\* or failed stage of an earlier run, and has_error is false until an error
\* is reported in the new run.
C30_RunStatePerRun ==
    fbRun.started =>
        /\ (CompletedStages \cup FailedStages) \subseteq fbRun.stages
        /\ GetStatus.has_error => fbRun.error

====
